---- MODULE Spec2Model ----
(***************************************************************************)
(* A model of the bit-encoding crate: the bit sources, the simple codec    *)
(* and the digit codec, with 128-bit machine arithmetic.                   *)
(*                                                                         *)
(* u128 values are little-endian sequences of 8-bit limbs without high     *)
(* zero limbs (the empty sequence is 0), so that two equal numbers are     *)
(* equal sequences.  An i128 value is its two's-complement bit pattern,    *)
(* held as the u128 that `value as u128` yields.                           *)
(***************************************************************************)
EXTENDS Integers, Sequences, FiniteSets, TLC

\* ------------------------------------------------------------------ bounds

\* Largest digit_size the model constructs a digit codec with (the code's
\* range is 2..=127).
MaxDigitSize == 4

\* Values of the 16- to 128-bit types are taken within this distance of the
\* ends and the middle of their range; the 8-bit types are exhaustive.
Edge == 2

\* The most writes of one stream.
MaxWrites == 3

\* Every source content up to this length is decoded.
MaxSourceBits == 6

\* A u8 source holds at most this many bytes, and its padding goes one past
\* their bits.
MaxBytes == 2

\* The longest dest of a read and the most reads of one source.
MaxDest == 9
MaxReads == 2

\* The longest bool sequence packed into bytes.
MaxPackedBits == 9

\* The most writes to one sink, and the longest of the short slices written
\* (the long ones are as long as a unit of the sink, one less and one more).
MaxSinkWrites == 3
MaxShortSlice == 1
MaxRoundTripBytes == 3

\* ------------------------------------------------------- machine arithmetic

LimbBits == 2 * 2 * 2
LimbBase == 2 ^ LimbBits

\* Width of u128 / i128, the type all codec arithmetic is done in.
U128Bits == 128
U128Limbs == U128Bits \div LimbBits

RECURSIVE Norm(_)
Norm(s) ==
    IF s = <<>> THEN <<>>
    ELSE IF s[Len(s)] = 0 THEN Norm(SubSeq(s, 1, Len(s) - 1))
    ELSE s

Limb(a, i) == IF i <= Len(a) THEN a[i] ELSE 0

RECURSIVE NatOfInt(_)
NatOfInt(n) == IF n = 0 THEN <<>> ELSE <<n % LimbBase>> \o NatOfInt(n \div LimbBase)

\* Only for values known to be small.
RECURSIVE IntOfNat(_)
IntOfNat(a) == IF a = <<>> THEN 0 ELSE a[1] + LimbBase * IntOfNat(Tail(a))

RECURSIVE AddFrom(_, _, _, _)
AddFrom(a, b, i, carry) ==
    IF i > Len(a) /\ i > Len(b)
    THEN IF carry = 0 THEN <<>> ELSE <<carry>>
    ELSE LET s == Limb(a, i) + Limb(b, i) + carry
         IN <<s % LimbBase>> \o AddFrom(a, b, i + 1, s \div LimbBase)

NatAdd(a, b) == AddFrom(a, b, 1, 0)

\* a - b for a >= b.
RECURSIVE SubFrom(_, _, _, _)
SubFrom(a, b, i, borrow) ==
    IF i > Len(a) THEN <<>>
    ELSE LET s == Limb(a, i) - Limb(b, i) - borrow
         IN IF s < 0
            THEN <<s + LimbBase>> \o SubFrom(a, b, i + 1, 1)
            ELSE <<s>> \o SubFrom(a, b, i + 1, 0)

NatSub(a, b) == Norm(SubFrom(a, b, 1, 0))

RECURSIVE LessFrom(_, _, _)
LessFrom(a, b, i) ==
    IF i = 0 THEN FALSE
    ELSE IF a[i] # b[i] THEN a[i] < b[i]
    ELSE LessFrom(a, b, i - 1)

NatLess(a, b) ==
    IF Len(a) # Len(b) THEN Len(a) < Len(b) ELSE LessFrom(a, b, Len(a))

NatLeq(a, b) == a = b \/ NatLess(a, b)

\* a * k for one limb k.
RECURSIVE MulLimbFrom(_, _, _, _)
MulLimbFrom(a, k, i, carry) ==
    IF i > Len(a) THEN (IF carry = 0 THEN <<>> ELSE <<carry>>)
    ELSE LET p == a[i] * k + carry
         IN <<p % LimbBase>> \o MulLimbFrom(a, k, i + 1, p \div LimbBase)

ShiftLimbs(a, n) == IF a = <<>> THEN <<>> ELSE [i \in 1..n |-> 0] \o a

RECURSIVE MulFrom(_, _, _)
MulFrom(a, b, i) ==
    IF i > Len(b) THEN <<>>
    ELSE NatAdd(ShiftLimbs(Norm(MulLimbFrom(a, b[i], 1, 0)), i - 1),
                MulFrom(a, b, i + 1))

NatMul(a, b) == MulFrom(a, b, 1)

\* Short division of a by the machine-word divisor n > 0, from the top limb
\* down, with the remainder so far and the quotient limbs found so far.
RECURSIVE DivFrom(_, _, _, _, _)
DivFrom(a, n, i, rem, quot) ==
    IF i = 0 THEN [quot |-> quot, rem |-> rem]
    ELSE DivFrom(a, n, i - 1, (rem * LimbBase + a[i]) % n,
                 <<(rem * LimbBase + a[i]) \div n>> \o quot)

RECURSIVE NatPow2(_)
NatPow2(n) ==
    IF n < LimbBits THEN <<2 ^ n>> ELSE <<0>> \o NatPow2(n - LimbBits)

\* Bit i (0-based) of a: a & (1 << i) != 0.
NatBit(a, i) ==
    (Limb(a, (i \div LimbBits) + 1) \div (2 ^ (i % LimbBits))) % 2 = 1

\* Long division of a by any divisor b > 0, a bit of a at a time from the top:
\* the remainder so far doubled and the bit added, b taken from it once it
\* fits, which sets bit i of the quotient.
LongDivTake(st, b, r) ==
    IF NatLeq(b, r)
    THEN [rem |-> NatSub(r, b), quot |-> NatAdd(st.quot, NatPow2(st.i)), i |-> st.i - 1]
    ELSE [rem |-> r, quot |-> st.quot, i |-> st.i - 1]

LongDivStep(st, a, b) ==
    LongDivTake(st, b, NatAdd(NatAdd(st.rem, st.rem),
                              IF NatBit(a, st.i) THEN <<1>> ELSE <<>>))

RECURSIVE LongDivSpan(_, _, _, _)
LongDivSpan(st, a, b, n) ==
    IF st.i < 0 \/ n = 0 THEN st
    ELSE IF n = 1 THEN LongDivStep(st, a, b)
    ELSE LongDivSpan(LongDivSpan(st, a, b, n \div 2), a, b, n - n \div 2)

LongDiv(a, b) ==
    LongDivSpan([rem |-> <<>>, quot |-> <<>>, i |-> LimbBits * Len(a) - 1],
                a, b, LimbBits * Len(a))

\* a / b and a % b: short division by a divisor of at most two limbs, long
\* division by a larger one.
NatDiv(a, b) ==
    IF Len(b) <= 2 THEN Norm(DivFrom(a, IntOfNat(b), Len(a), 0, <<>>).quot)
    ELSE LongDiv(a, b).quot
NatMod(a, b) ==
    IF Len(b) <= 2 THEN NatOfInt(DivFrom(a, IntOfNat(b), Len(a), 0, <<>>).rem)
    ELSE LongDiv(a, b).rem

FitsU128(a) == Len(a) <= U128Limbs
WrapU128(a) == Norm(SubSeq(a, 1, IF Len(a) < U128Limbs THEN Len(a) ELSE U128Limbs))

U128Max == NatSub(NatPow2(U128Bits), <<1>>)
I128Min == NatPow2(U128Bits - 1)
I128Max == NatSub(I128Min, <<1>>)

\* The sign of the i128 whose bit pattern is p.
I128Negative(p) == NatLeq(I128Min, p)

Min(a, b) == IF a < b THEN a ELSE b

\* `x as uN` for a u128 or i128 pattern x: the low N bits (N a multiple of 8).
TruncateTo(p, N) == Norm(SubSeq(p, 1, Min(Len(p), N \div LimbBits)))

\* `x as i128` for an iN pattern x of N bits: sign extension.
SignExtend(p, N) ==
    IF NatBit(p, N - 1)
    THEN NatAdd(p, NatSub(NatPow2(U128Bits), NatPow2(N)))
    ELSE p

\* A checked u128 operation from its exact result: the wrapped value and
\* whether the exact one left the type.
CheckedU128(exact) == [val |-> WrapU128(exact), overflow |-> ~FitsU128(exact)]
U128Mul(a, b) == CheckedU128(NatMul(a, b))
U128Add(a, b) == CheckedU128(NatAdd(a, b))

\* Checked i128 addition on bit patterns: the wrapped sum, and whether the
\* mathematical sum left the i128 range.
I128Sum(p, q, sum) ==
    [val |-> sum,
     overflow |-> I128Negative(p) = I128Negative(q) /\ I128Negative(sum) # I128Negative(p)]
I128Add(p, q) == I128Sum(p, q, WrapU128(NatAdd(p, q)))

\* Checked i128 negation: only -i128::MIN overflows.
I128Neg(p) ==
    [val |-> IF p = <<>> THEN <<>> ELSE NatSub(NatPow2(U128Bits), p),
     overflow |-> p = I128Min]

\* The i128 pattern of a small mathematical integer.
I128OfInt(n) ==
    IF n >= 0 THEN NatOfInt(n) ELSE NatSub(NatPow2(U128Bits), NatOfInt(-n))

\* ------------------------------------------------------------- bit sources

\* A source is one record for both implementations; `asked` counts the dest
\* slots every read call so far asked for (an observer, not a field of the
\* code).
BoolSliceBitSource(slice) ==
    [kind |-> "bool", slice |-> slice, bit_offset |-> 0,
     num_padding_bits |-> 0, asked |-> 0]

U8SliceBitSource(slice, num_padding_bits) ==
    [kind |-> "u8", slice |-> slice, bit_offset |-> 0,
     num_padding_bits |-> num_padding_bits, asked |-> 0]

BoolSliceReadInPlace(self, dest) ==
    [status |-> IF Len(dest) > Len(self.slice) THEN "ReachedEnd" ELSE "Ok",
     dest |-> SubSeq(self.slice, 1, Min(Len(dest), Len(self.slice)))
                 \o SubSeq(dest, Len(self.slice) + 1, Len(dest)),
     read_bools |-> Min(Len(dest), Len(self.slice)),
     src |-> self]

\* BoolSliceBitSource::read.  dest is the caller's buffer as passed in.
BoolSliceRead(self, dest) ==
    IF Len(dest) > Len(self.slice)
    THEN [status |-> "ReachedEnd",
          dest |-> self.slice \o SubSeq(dest, Len(self.slice) + 1, Len(dest)),
          read_bools |-> Len(self.slice),
          src |-> [self EXCEPT !.slice = <<>>]]
    ELSE [status |-> "Ok",
          dest |-> SubSeq(self.slice, 1, Len(dest)),
          read_bools |-> Len(dest),
          src |-> [self EXCEPT !.slice = SubSeq(self.slice, Len(dest) + 1, Len(self.slice))]]

\* One pass of the loop of U8SliceBitSource::read: the source after it.
U8Advance(self) ==
    IF self.bit_offset = 7
    THEN [self EXCEPT !.bit_offset = 0, !.slice = Tail(self.slice)]
    ELSE [self EXCEPT !.bit_offset = self.bit_offset + 1]

\* The loop of U8SliceBitSource::read from dest_index (1-based) on.
\* self.slice[0] on an empty slice is an index-out-of-bounds panic.
RECURSIVE U8ReadLoop(_, _, _, _)
U8ReadLoop(self, dest, dest_index, num_bits_to_write) ==
    IF dest_index > num_bits_to_write
    THEN [panicked |-> FALSE, dest |-> dest, src |-> self]
    ELSE IF self.slice = <<>>
    THEN [panicked |-> TRUE, dest |-> dest, src |-> self]
    ELSE U8ReadLoop(U8Advance(self),
                    [dest EXCEPT ![dest_index] =
                        (self.slice[1] \div (2 ^ self.bit_offset)) % 2 # 0],
                    dest_index + 1, num_bits_to_write)

\* The end of U8SliceBitSource::read, after the loop.
U8ReadResult(done, dest_len, num_bits_to_write) ==
    [status |-> IF done.panicked THEN "Panic"
                ELSE IF num_bits_to_write < dest_len THEN "ReachedEnd" ELSE "Ok",
     dest |-> done.dest,
     read_bools |-> IF done.panicked THEN 0 ELSE num_bits_to_write,
     src |-> done.src]

\* min(dest.len(), remaining_bits), where remaining_bits is a usize
\* subtraction whose exact value is `exact`: below zero it wraps, in a build
\* without overflow checks, to a value above every dest.len().
NumBitsToWrite(dest_len, exact) == IF exact < 0 THEN dest_len ELSE Min(dest_len, exact)

\* U8SliceBitSource::read.  A build with overflow checks panics on the
\* subtraction going below zero.
U8SliceReadFrom(self, dest, exact, overflow_checks) ==
    IF exact < 0 /\ overflow_checks
    THEN [status |-> "Panic", dest |-> dest, read_bools |-> 0, src |-> self]
    ELSE U8ReadResult(U8ReadLoop(self, dest, 1, NumBitsToWrite(Len(dest), exact)),
                      Len(dest), NumBitsToWrite(Len(dest), exact))

U8SliceReadWithPadding(self, dest, overflow_checks) ==
    U8SliceReadFrom(self, dest, Len(self.slice) * 8 - self.bit_offset, overflow_checks)

U8SliceRead(self, dest, overflow_checks) ==
    U8SliceReadFrom(self, dest,
                    Len(self.slice) * 8 - self.bit_offset - self.num_padding_bits,
                    overflow_checks)

\* BitSource::read, dispatched on the implementation.
Asked(read, asked) == [read EXCEPT !.src.asked = asked]
SourceRead(self, dest, overflow_checks) ==
    Asked(IF self.kind = "bool" THEN BoolSliceRead(self, dest)
          ELSE U8SliceRead(self, dest, overflow_checks),
          self.asked + Len(dest))

\* ------------------------------------------------------------ simple codec

SimpleWriteUnsignedFromBitOne(num_bits, value) ==
    [index \in 1..num_bits |-> NatBit(value, index)]

\* SimpleEncodingProtocol::write_unsigned: the bools handed to sink.write.
SimpleWriteUnsigned(num_bits, value) ==
    [index \in 1..num_bits |-> NatBit(value, index - 1)]

SimpleWriteBiasedWithCarry(num_bits, biased, overflow_checks) ==
    [status |-> "Ok", bits |-> SimpleWriteUnsigned(num_bits + 1, biased.val)]

\* SimpleEncodingProtocol::write_signed after `value += 1 << num_bits`.
SimpleWriteBiased(num_bits, biased, overflow_checks) ==
    IF biased.overflow /\ overflow_checks
    THEN [status |-> "Panic", bits |-> <<>>]
    ELSE [status |-> "Ok", bits |-> SimpleWriteUnsigned(num_bits, biased.val)]

\* SimpleEncodingProtocol::write_signed.  `1 << num_bits` is an i128.
SimpleWriteSigned(num_bits, value, overflow_checks) ==
    IF I128Negative(value) /\ num_bits < U128Bits
    THEN SimpleWriteBiased(num_bits, I128Add(value, NatPow2(num_bits)), overflow_checks)
    ELSE [status |-> "Ok", bits |-> SimpleWriteUnsigned(num_bits, value)]

\* One limb of the sum of 1 << index over the set bits.
BitAt(bits, index) == IF index <= Len(bits) /\ bits[index] THEN 1 ELSE 0
RECURSIVE LimbOfBits(_, _, _)
LimbOfBits(bits, first, k) ==
    IF k = LimbBits THEN 0
    ELSE BitAt(bits, first + k) * (2 ^ k) + LimbOfBits(bits, first, k + 1)

BitsToNat(bits) ==
    Norm([j \in 1..((Len(bits) + LimbBits - 1) \div LimbBits) |->
            LimbOfBits(bits, (j - 1) * LimbBits + 1, 0)])

\* A decode result carries the source as the call left it and whether
\* 128-bit arithmetic overflowed.
DecodeOk(value, src) ==
    [status |-> "Ok", value |-> value, read_bools |-> 0, overflow |-> FALSE, src |-> src]

DecodeFailedWithDefault(read) ==
    [status |-> "Ok", value |-> <<>>, read_bools |-> read.read_bools,
     overflow |-> FALSE, src |-> read.src]

\* `source.read(..).map_err(..)?` leaving the decoder.
DecodeFailed(read) ==
    [status |-> read.status, value |-> <<>>, read_bools |-> read.read_bools,
     overflow |-> FALSE, src |-> read.src]

SimpleUnsignedOf(read) ==
    IF read.status = "Ok" THEN DecodeOk(BitsToNat(read.dest), read.src)
    ELSE DecodeFailed(read)

\* SimpleIntDecodingProtocol::read_unsigned
SimpleReadUnsigned(source, num_bits, overflow_checks) ==
    SimpleUnsignedOf(SourceRead(source, [i \in 1..num_bits |-> FALSE], overflow_checks))

SimpleSignedOf(unsigned, num_bits) ==
    IF unsigned.status # "Ok" THEN unsigned
    ELSE IF num_bits < U128Bits /\ NatLeq(NatPow2(num_bits), unsigned.value)
    THEN [unsigned EXCEPT !.value = NatSub(unsigned.value, NatPow2(num_bits))]
    ELSE unsigned

\* SimpleIntDecodingProtocol::read_signed
SimpleReadSigned(source, num_bits, overflow_checks) ==
    SimpleSignedOf(SimpleReadUnsigned(source, num_bits, overflow_checks), num_bits)

\* ------------------------------------------------------------- digit codec

\* get_num_digit_values
NumDigitValuesWithAllOnes(digit_size) == NatPow2(digit_size)

get_num_digit_values(digit_size) == NatSub(NatPow2(digit_size), <<1>>)

\* The while loop of compute_num_digits.
RECURSIVE CountDigits(_, _, _)
CountDigits(value, num_digit_values, counter) ==
    IF value = <<>> THEN counter
    ELSE CountDigits(NatDiv(value, num_digit_values), num_digit_values, counter + 1)

compute_num_digits_base_pow2(digit_size, max_bits) ==
    CountDigits(IF max_bits = U128Bits THEN U128Max ELSE NatPow2(max_bits),
                NatPow2(digit_size), 0)

compute_num_digits(digit_size, max_bits) ==
    CountDigits(IF max_bits = U128Bits THEN U128Max ELSE NatPow2(max_bits),
                get_num_digit_values(digit_size), 0)

RelevantNumDigitsOfWidths == <<8, 8, 16, 16, 32, 32, 64, 64, 128, 128>>

RELEVANT_NUM_DIGITS == <<7, 8, 15, 16, 31, 32, 63, 64, 127, 128>>

compute_relevant_num_digits(digit_size) ==
    [index \in 1..Len(RELEVANT_NUM_DIGITS) |->
        compute_num_digits(digit_size, RELEVANT_NUM_DIGITS[index])]

DigitNewUpTo128(digit_size, short_zero_and_one) ==
    IF digit_size < 2 \/ digit_size > 128
    THEN [kind |-> "panic"]
    ELSE [kind |-> "digit", digit_size |-> digit_size,
          short_zero_and_one |-> short_zero_and_one,
          max_num_digits |-> compute_relevant_num_digits(digit_size)]

\* DigitIntEncodingProtocol::new and DigitDecodingProtocol::new build the same
\* three fields; "panic" stands for the aborted construction.
DigitNew(digit_size, short_zero_and_one) ==
    IF digit_size < 2 \/ digit_size > 127
    THEN [kind |-> "panic"]
    ELSE [kind |-> "digit", digit_size |-> digit_size,
          short_zero_and_one |-> short_zero_and_one,
          max_num_digits |-> compute_relevant_num_digits(digit_size)]

\* The simple codec has no fields.
SimpleNew == [kind |-> "simple"]

\* One pass of the while loop of write_digit_part; nothing once value is 0.
WriteDigitStep(digit_size, num_digit_values, st) ==
    IF st.value = <<>> THEN st
    ELSE [value |-> NatDiv(st.value, num_digit_values),
          bits |-> st.bits \o SimpleWriteUnsigned(digit_size, NatMod(st.value, num_digit_values)),
          num_digits |-> st.num_digits + 1]

\* n passes of the loop, split in halves to keep the evaluation shallow.
RECURSIVE WriteDigitSpan(_, _, _, _)
WriteDigitSpan(digit_size, num_digit_values, st, n) ==
    IF st.value = <<>> \/ n = 0 THEN st
    ELSE IF n = 1 THEN WriteDigitStep(digit_size, num_digit_values, st)
    ELSE WriteDigitSpan(digit_size, num_digit_values,
                        WriteDigitSpan(digit_size, num_digit_values, st, n \div 2),
                        n - n \div 2)

\* The loop of write_digit_part: the digits written and their number.  Every
\* pass at least halves value, so a u128 is 0 within U128Bits passes.
WriteDigits(digit_size, value) ==
    WriteDigitSpan(digit_size, get_num_digit_values(digit_size),
                   [value |-> value, bits |-> <<>>, num_digits |-> 0], U128Bits)

WritesTerminatorAtMaximum(num_digits, max_num_digits) == num_digits <= max_num_digits

\* The terminator decision of write_digit_part.
WritesTerminator(num_digits, max_num_digits) == num_digits < max_num_digits

\* The end of write_digit_part, after the loop.
Terminated(digits, digit_size, max_num_digits) ==
    [bits |-> IF WritesTerminator(digits.num_digits, max_num_digits)
              THEN digits.bits \o [i \in 1..digit_size |-> TRUE]
              ELSE digits.bits,
     num_digits |-> digits.num_digits]

\* DigitIntEncodingProtocol::write_digit_part
write_digit_part(self, value, max_num_digits) ==
    Terminated(WriteDigits(self.digit_size, value), self.digit_size, max_num_digits)

\* Everything one write method hands to the sink: the bits before the digit
\* part, the digit part, and the number of data digits in it.
Encoded(prefix, part) ==
    [prefix |-> prefix, bits |-> part.bits, num_digits |-> part.num_digits]

ShortEncodedInThreeBools(value) ==
    [prefix |-> <<TRUE, value = <<1>>, FALSE>>, bits |-> <<>>, num_digits |-> 0]

ShortEncoded(value) ==
    [prefix |-> <<TRUE, value = <<1>> >>, bits |-> <<>>, num_digits |-> 0]

\* DigitIntEncodingProtocol::write_unsigned
DigitWriteUnsigned(self, value, max_num_digits) ==
    IF self.short_zero_and_one /\ value \in {<<>>, <<1>>}
    THEN ShortEncoded(value)
    ELSE IF self.short_zero_and_one
    THEN Encoded(<<FALSE>>, write_digit_part(self, NatSub(value, <<2>>), max_num_digits))
    ELSE Encoded(<<>>, write_digit_part(self, value, max_num_digits))

SignedBiasBothBranches(value) == I128Add(value, I128OfInt(-2)).val

\* The bias step of write_signed: value -= 2 on the non-negative branch only.
SignedBias(value) == IF ~I128Negative(value) THEN NatSub(value, <<2>>) ELSE value

MagnitudeWithoutIncrement(value) ==
    IF I128Negative(value) THEN I128Neg(value).val ELSE value

\* The sign branch of write_signed: value += 1; value = -value.
Magnitude(value) ==
    IF I128Negative(value) THEN I128Neg(I128Add(value, <<1>>).val).val ELSE value

\* write_signed from the sign bit on.
WriteSignBit(self, first, value, max_num_digits) ==
    Encoded(first \o <<I128Negative(value)>>,
            write_digit_part(self, Magnitude(value), max_num_digits))

\* DigitIntEncodingProtocol::write_signed
DigitWriteSigned(self, value, max_num_digits) ==
    IF self.short_zero_and_one /\ value \in {<<>>, <<1>>}
    THEN ShortEncoded(value)
    ELSE IF self.short_zero_and_one
    THEN WriteSignBit(self, <<FALSE>>, SignedBias(value), max_num_digits)
    ELSE WriteSignBit(self, <<>>, value, max_num_digits)

\* The accumulation of one data digit in read_digit_part:
\* current_result += current_factor * next_digit, and current_factor *=
\* num_digit_values unless this was the last digit.  An overflowing operation
\* panics in a build with overflow checks and wraps in one without;
\* `overflow` records that one happened.
Accumulate(st, src, product, sum, factor, overflow_checks) ==
    IF (product.overflow \/ sum.overflow \/ factor.overflow) /\ overflow_checks
    THEN [st EXCEPT !.status = "Panic", !.src = src, !.overflow = TRUE]
    ELSE [st EXCEPT !.src = src,
                    !.current_digit = st.current_digit + 1,
                    !.current_factor = factor.val,
                    !.current_result = sum.val,
                    !.overflow = st.overflow \/ product.overflow \/ sum.overflow
                                     \/ factor.overflow]

AccumulateProduct(st, src, product, num_digit_values, max_num_digits, overflow_checks) ==
    Accumulate(st, src, product, U128Add(st.current_result, product.val),
               IF st.current_digit < max_num_digits
               THEN U128Mul(st.current_factor, num_digit_values)
               ELSE [val |-> st.current_factor, overflow |-> FALSE],
               overflow_checks)

WithDigitCountingTerminator(st, next_digit, num_digit_values, max_num_digits, overflow_checks) ==
    IF next_digit.status # "Ok"
    THEN [st EXCEPT !.status = next_digit.status, !.src = next_digit.src,
                    !.read_bools = next_digit.read_bools]
    ELSE IF next_digit.value = num_digit_values
    THEN [AccumulateProduct(st, next_digit.src,
                            U128Mul(st.current_factor, next_digit.value),
                            num_digit_values, max_num_digits, FALSE)
             EXCEPT !.status = "Ok"]
    ELSE AccumulateProduct(st, next_digit.src,
                           U128Mul(st.current_factor, next_digit.value),
                           num_digit_values, max_num_digits, overflow_checks)

\* One pass of the for loop of read_digit_part, from the digit read on.
WithDigit(st, next_digit, num_digit_values, max_num_digits, overflow_checks) ==
    IF next_digit.status # "Ok"
    THEN [st EXCEPT !.status = next_digit.status, !.src = next_digit.src,
                    !.read_bools = next_digit.read_bools]
    ELSE IF next_digit.value = num_digit_values
    THEN [st EXCEPT !.status = "Ok", !.src = next_digit.src]
    ELSE AccumulateProduct(st, next_digit.src,
                           U128Mul(st.current_factor, next_digit.value),
                           num_digit_values, max_num_digits, overflow_checks)

\* One pass of the for loop; nothing once the loop was left by the
\* terminator, a failed read or a panic.
ReadDigitStep(self, st, num_digit_values, max_num_digits, overflow_checks) ==
    IF st.status # "reading" THEN st
    ELSE WithDigit(st, SimpleReadUnsigned(st.src, self.digit_size, overflow_checks),
                   num_digit_values, max_num_digits, overflow_checks)

\* n passes of the loop, split in halves to keep the evaluation shallow.
RECURSIVE ReadDigitSpan(_, _, _, _, _, _)
ReadDigitSpan(self, st, n, num_digit_values, max_num_digits, overflow_checks) ==
    IF st.status # "reading" \/ n = 0 THEN st
    ELSE IF n = 1
    THEN ReadDigitStep(self, st, num_digit_values, max_num_digits, overflow_checks)
    ELSE ReadDigitSpan(self,
                       ReadDigitSpan(self, st, n \div 2, num_digit_values,
                                     max_num_digits, overflow_checks),
                       n - n \div 2, num_digit_values, max_num_digits, overflow_checks)

DigitPassesOneMore(max_num_digits) == max_num_digits + 1

\* The number of passes of `for current_digit in 1..=max_num_digits`.
DigitPasses(max_num_digits) == max_num_digits

\* What read_digit_part returns once the loop is over.
DigitPartOf(st) ==
    [status |-> IF st.status = "reading" THEN "Ok" ELSE st.status,
     value |-> IF st.status \in {"reading", "Ok"} THEN st.current_result ELSE <<>>,
     read_bools |-> st.read_bools, overflow |-> st.overflow, src |-> st.src]

\* DigitDecodingProtocol::read_digit_part
read_digit_part(self, source, max_num_digits, overflow_checks) ==
    DigitPartOf(ReadDigitSpan(self,
                    [status |-> "reading", src |-> source, current_digit |-> 1,
                     current_factor |-> <<1>>, current_result |-> <<>>,
                     overflow |-> FALSE, read_bools |-> 0],
                    DigitPasses(max_num_digits), get_num_digit_values(self.digit_size),
                    max_num_digits, overflow_checks))

\* Finishing a decode with a checked operation on the digit part's result.
Checked(result, op, overflow_checks) ==
    IF op.overflow /\ overflow_checks
    THEN [result EXCEPT !.status = "Panic", !.value = <<>>, !.overflow = TRUE]
    ELSE [result EXCEPT !.value = op.val, !.overflow = result.overflow \/ op.overflow]

UnsignedOfUnbiased(result, short_zero_and_one, overflow_checks) == result

\* The end of read_unsigned: result, or result + 2.
UnsignedOf(result, short_zero_and_one, overflow_checks) ==
    IF result.status # "Ok" \/ ~short_zero_and_one THEN result
    ELSE Checked(result, U128Add(result.value, <<2>>), overflow_checks)

\* `-unsigned_result - 1` on the i128.
NegateLess(negated) ==
    [val |-> I128Add(negated.val, I128OfInt(-1)).val,
     overflow |-> negated.overflow \/ I128Add(negated.val, I128OfInt(-1)).overflow]

\* The last match of read_signed on the digit part's result as an i128.
SignedResult(sign_bit, short_zero_and_one, unsigned_result) ==
    IF sign_bit THEN NegateLess(I128Neg(unsigned_result))
    ELSE IF short_zero_and_one THEN I128Add(unsigned_result, <<2>>)
    ELSE [val |-> unsigned_result, overflow |-> FALSE]

\* The end of read_signed.
SignedOf(result, sign_bit, short_zero_and_one, overflow_checks) ==
    IF result.status # "Ok" THEN result
    ELSE Checked(result, SignedResult(sign_bit, short_zero_and_one, result.value),
                 overflow_checks)

\* read_signed from the sign bit on.
AfterSignBit(self, sign_bit, max_num_digits, overflow_checks) ==
    IF sign_bit.status # "Ok" THEN DecodeFailed(sign_bit)
    ELSE SignedOf(read_digit_part(self, sign_bit.src, max_num_digits, overflow_checks),
                  sign_bit.dest[1], self.short_zero_and_one, overflow_checks)

\* read_unsigned (signed FALSE) or read_signed (signed TRUE) after the
\* short_zero_and_one reads.
DigitPart(self, signed, source, max_num_digits, overflow_checks) ==
    IF signed
    THEN AfterSignBit(self, SourceRead(source, <<FALSE>>, overflow_checks),
                      max_num_digits, overflow_checks)
    ELSE UnsignedOf(read_digit_part(self, source, max_num_digits, overflow_checks),
                    self.short_zero_and_one, overflow_checks)

\* The match on second_bit.
AfterSecondBit(second_bit) ==
    IF second_bit.status # "Ok" THEN DecodeFailed(second_bit)
    ELSE DecodeOk(IF second_bit.dest[1] THEN <<1>> ELSE <<>>, second_bit.src)

AfterFirstBit(self, signed, first_bit, max_num_digits, overflow_checks) ==
    IF first_bit.status # "Ok" THEN DecodeFailed(first_bit)
    ELSE IF first_bit.dest[1]
    THEN AfterSecondBit(SourceRead(first_bit.src, <<FALSE>>, overflow_checks))
    ELSE DigitPart(self, signed, first_bit.src, max_num_digits, overflow_checks)

\* DigitDecodingProtocol::read_unsigned and read_signed, which differ from
\* the sign bit on.
DigitRead(self, signed, source, max_num_digits, overflow_checks) ==
    IF self.short_zero_and_one
    THEN AfterFirstBit(self, signed, SourceRead(source, <<FALSE>>, overflow_checks),
                       max_num_digits, overflow_checks)
    ELSE DigitPart(self, signed, source, max_num_digits, overflow_checks)

DigitReadUnsigned(self, source, max_num_digits, overflow_checks) ==
    DigitRead(self, FALSE, source, max_num_digits, overflow_checks)

DigitReadSigned(self, source, max_num_digits, overflow_checks) ==
    DigitRead(self, TRUE, source, max_num_digits, overflow_checks)

\* ------------------------------------------------- the ten integer types

\* An integer type is <<signed, bits>>; a value of it is held as the u128
\* (`as u128`) or i128 (`as i128`) the trait methods cast it to.
Widths == {8, 16, 32, 64, 128}
IntTypes == BOOLEAN \X Widths

\* The max_num_digits index each trait method uses (0-based in the code).
MaxDigitsIndex(signed, bits) ==
    CASE bits = 8 -> IF signed THEN 1 ELSE 2
      [] bits = 16 -> IF signed THEN 3 ELSE 4
      [] bits = 32 -> IF signed THEN 5 ELSE 6
      [] bits = 64 -> IF signed THEN 7 ELSE 8
      [] bits = 128 -> IF signed THEN 9 ELSE 10

MaxNumDigits(self, signed, bits) == self.max_num_digits[MaxDigitsIndex(signed, bits)]

SimpleEncoded(w) ==
    [status |-> w.status, prefix |-> <<>>, bits |-> w.bits, num_digits |-> 0]

DigitEncoded(w) ==
    [status |-> "Ok", prefix |-> w.prefix, bits |-> w.bits, num_digits |-> w.num_digits]

\* EncodingProtocol::write_uN / write_iN of either codec: what reaches the sink.
EncoderWrite(self, signed, bits, value, overflow_checks) ==
    IF self.kind = "simple"
    THEN SimpleEncoded(IF signed THEN SimpleWriteSigned(bits, value, overflow_checks)
                       ELSE [status |-> "Ok", bits |-> SimpleWriteUnsigned(bits, value)])
    ELSE DigitEncoded(IF signed
                      THEN DigitWriteSigned(self, value, MaxNumDigits(self, signed, bits))
                      ELSE DigitWriteUnsigned(self, value, MaxNumDigits(self, signed, bits)))

CastToI128(signed, bits, x) == x

\* The `.map(|x| x as uN)` / `.map(|x| x as iN)` of the read methods.
CastTo(signed, bits, x) ==
    IF signed THEN SignExtend(TruncateTo(x, bits), bits) ELSE TruncateTo(x, bits)

Mapped(r, signed, bits) ==
    IF r.status = "Ok" THEN [r EXCEPT !.value = CastTo(signed, bits, r.value)] ELSE r

\* DecodingProtocol::read_uN / read_iN of either codec.
DecoderRead(self, signed, bits, source, overflow_checks) ==
    Mapped(IF self.kind = "simple"
           THEN IF signed THEN SimpleReadSigned(source, bits, overflow_checks)
                ELSE SimpleReadUnsigned(source, bits, overflow_checks)
           ELSE DigitRead(self, signed, source, MaxNumDigits(self, signed, bits),
                          overflow_checks),
           signed, bits)

\* ------------------------------------------------------------------ inputs

DigitSizes == 2..MaxDigitSize
Protocols == {SimpleNew} \cup {DigitNew(d, s) : d \in DigitSizes, s \in BOOLEAN}

\* The numbers within Edge of n, kept inside 0..top.
Around(n, top) ==
    {m \in {NatAdd(n, NatOfInt(k)) : k \in 0..Edge}
          \cup {NatSub(n, NatOfInt(k)) : k \in {j \in 0..Edge : NatLeq(NatOfInt(j), n)}} :
        NatLeq(m, top)}

\* The bit patterns of N bits the model takes values from.
PatternsOf(bits, top) ==
    IF bits = 8 THEN {NatOfInt(n) : n \in 0..255}
    ELSE Around(<<>>, top) \cup Around(NatPow2(bits - 1), top) \cup Around(top, top)

\* The values of a type the model writes.
ValuesOf(signed, bits) ==
    IF signed
    THEN {SignExtend(p, bits) : p \in PatternsOf(bits, NatSub(NatPow2(bits), <<1>>))}
    ELSE PatternsOf(bits, NatSub(NatPow2(bits), <<1>>))

\* ------------------------------------------------------------------- state

VARIABLES
    overflow_checks,  \* the build: TRUE with arithmetic overflow checks (debug)
    protocol,         \* the encoder and its matching decoder
    sink,             \* BoolVecBitSink.vec
    written,          \* the harness's record of every write, in order
    source,           \* the bit source being read, "none" before it exists
    content,          \* the bits the source was built to deliver
    results,          \* the outcome of every read, in order
    pc                \* "writing", "reading" or "panicked"

vars == <<overflow_checks, protocol, sink, written, source, content, results, pc>>

\* --------------------------------------------- one value written, then read

InitWriter ==
    /\ overflow_checks \in BOOLEAN
    /\ protocol \in Protocols
    /\ sink = <<>>
    /\ written = <<>>
    /\ source = "none"
    /\ content = <<>>
    /\ results = <<>>
    /\ pc = "writing"

\* The harness's note of one write_uN / write_iN call.
WrittenInt(signed, bits, value, w) ==
    [raw |-> FALSE, signed |-> signed, bits |-> bits, value |-> value,
     start |-> Len(sink), prefix |-> Len(w.prefix), num_digits |-> w.num_digits,
     length |-> Len(w.prefix) + Len(w.bits)]

\* encoder.write_uN(sink, value) / write_iN(sink, value) on a BoolVecBitSink,
\* whose write appends the bools.
WriteInt(signed, bits, value) ==
    /\ pc = "writing"
    /\ \E w \in {EncoderWrite(protocol, signed, bits, value, overflow_checks)} :
          /\ sink' = IF w.status = "Ok" THEN sink \o w.prefix \o w.bits ELSE sink
          /\ pc' = IF w.status = "Ok" THEN "writing" ELSE "panicked"
          /\ written' = Append(written, WrittenInt(signed, bits, value, w))
    /\ UNCHANGED <<overflow_checks, protocol, source, content, results>>

\* BoolSliceBitSource::new(sink.get_bits())
OpenSource ==
    /\ pc = "writing"
    /\ written # <<>>
    /\ source' = BoolSliceBitSource(sink)
    /\ content' = sink
    /\ pc' = "reading"
    /\ UNCHANGED <<overflow_checks, protocol, sink, written, results>>

\* What a decode leaves in `results`: its result, the dest slots it asked
\* the source for, and the bools left in the source.
Outcome(r, signed, bits) ==
    [signed |-> signed, bits |-> bits,
     status |-> r.status, value |-> r.value, read_bools |-> r.read_bools,
     overflow |-> r.overflow, asked |-> r.src.asked - source.asked,
     left |-> Len(r.src.slice)]

\* decoder.read_uN(source) / read_iN(source) for the written value `item`.
ReadItem(item) ==
    \E r \in {DecoderRead(protocol, item.signed, item.bits, source, overflow_checks)} :
        /\ results' = Append(results, Outcome(r, item.signed, item.bits))
        /\ source' = r.src
        /\ pc' = IF r.status = "Panic" THEN "panicked" ELSE "reading"

\* The next read of the harness, in the order of the writes.
ReadInt ==
    /\ pc = "reading"
    /\ Len(results) < Len(written)
    /\ ~written[Len(results) + 1].raw
    /\ ReadItem(written[Len(results) + 1])
    /\ UNCHANGED <<overflow_checks, protocol, sink, written, content>>

WriteOne ==
    /\ written = <<>>
    /\ \E ty \in IntTypes : \E value \in ValuesOf(ty[1], ty[2]) :
          WriteInt(ty[1], ty[2], value)

Next ==
    \/ WriteOne
    \/ OpenSource
    \/ ReadInt

Spec == InitWriter /\ [][Next]_vars

\* ------------------------------- several writes on one sink, read in order

\* The types and values the stream is made of: an unsigned and a signed type,
\* the shortest and the longest encodings of each.
StreamTypes == {<<FALSE, 8>>, <<TRUE, 64>>}

StreamValues(signed, bits) ==
    {<<>>, IF signed THEN SignExtend(NatPow2(bits - 1), bits)
                     ELSE NatSub(NatPow2(bits), <<1>>)}

\* The raw bits the harness writes between the integers.
RawWrites == {<<TRUE, FALSE>>}

\* The harness's note of one sink.write call.
WrittenRaw(bits) ==
    [raw |-> TRUE, signed |-> FALSE, bits |-> 0, value |-> bits,
     start |-> Len(sink), prefix |-> 0, num_digits |-> 0, length |-> Len(bits)]

WriteNext ==
    /\ Len(written) < MaxWrites
    /\ \E ty \in StreamTypes : \E value \in StreamValues(ty[1], ty[2]) :
          WriteInt(ty[1], ty[2], value)

\* sink.write(&bits) on a BoolVecBitSink.
WriteRaw ==
    /\ pc = "writing"
    /\ Len(written) < MaxWrites
    /\ \E bits \in RawWrites :
          /\ sink' = sink \o bits
          /\ written' = Append(written, WrittenRaw(bits))
    /\ UNCHANGED <<overflow_checks, protocol, source, content, results, pc>>

\* What a raw read leaves in `results`.
RawOutcome(r) ==
    [signed |-> FALSE, bits |-> 0, status |-> r.status, value |-> r.dest, read_bools |-> r.read_bools,
     overflow |-> FALSE, asked |-> r.src.asked - source.asked,
     left |-> Len(r.src.slice)]

\* source.read(&mut dest) with a dest as long as the raw write it reads back.
ReadRaw ==
    /\ pc = "reading"
    /\ Len(results) < Len(written)
    /\ written[Len(results) + 1].raw
    /\ \E r \in {SourceRead(source, [i \in 1..written[Len(results) + 1].length |-> FALSE],
                            overflow_checks)} :
          /\ results' = Append(results, RawOutcome(r))
          /\ source' = r.src
    /\ UNCHANGED <<overflow_checks, protocol, sink, written, content, pc>>

NextStream ==
    \/ WriteNext
    \/ WriteRaw
    \/ OpenSource
    \/ ReadInt
    \/ ReadRaw

SpecStream == InitWriter /\ [][NextStream]_vars

\* ----------------------------------------- one decode of an arbitrary source

\* Every sequence of n bools, and of at most n.
RECURSIVE BitSeqsOfLen(_)
BitSeqsOfLen(n) ==
    IF n = 0 THEN {<<>>}
    ELSE {Append(b, x) : b \in BitSeqsOfLen(n - 1), x \in BOOLEAN}

BitSeqs(n) == UNION {BitSeqsOfLen(k) : k \in 0..n}

\* `pattern` repeated n times.
Repeat(pattern, n) ==
    [i \in 1..(n * Len(pattern)) |-> pattern[((i - 1) % Len(pattern)) + 1]]

\* Sources no encoder produces: any prefix and sign bits, then one digit
\* repeated once more than the widest type takes.
LongRuns(self) ==
    {prefix \o Repeat(digit, MaxNumDigits(self, FALSE, U128Bits) + 1) :
        prefix \in BitSeqs(2), digit \in BitSeqsOfLen(self.digit_size)}

\* The contents of the source a decoder is given.
SourceContents(self) == BitSeqs(MaxSourceBits) \cup LongRuns(self)

InitDecode ==
    /\ overflow_checks \in BOOLEAN
    /\ protocol \in {DigitNew(d, s) : d \in DigitSizes, s \in BOOLEAN}
    /\ content \in SourceContents(protocol)
    /\ source = BoolSliceBitSource(content)
    /\ sink = <<>>
    /\ written = <<>>
    /\ results = <<>>
    /\ pc = "reading"

\* decoder.read_uN(source) / read_iN(source) of any type on the source as
\* given.
Decode ==
    /\ pc = "reading"
    /\ results = <<>>
    /\ \E ty \in IntTypes : ReadItem([signed |-> ty[1], bits |-> ty[2]])
    /\ UNCHANGED <<overflow_checks, protocol, sink, written, content>>

NextDecode == Decode

SpecDecode == InitDecode /\ [][NextDecode]_vars

\* ------------------------------------------------- reads of a bit source

\* The largest num_padding_bits, a u8.
U8Max == 255

ByteValues == {0, 165, U8Max}

RECURSIVE ByteSeqsOfLen(_)
ByteSeqsOfLen(n) ==
    IF n = 0 THEN {<<>>}
    ELSE {Append(b, x) : b \in ByteSeqsOfLen(n - 1), x \in ByteValues}

Paddings == 0..(8 * MaxBytes + 1) \cup {U8Max}

BoolSources == {BoolSliceBitSource(b) : b \in BitSeqs(MaxSourceBits)}

U8Sources ==
    {U8SliceBitSource(bytes, p) :
        bytes \in UNION {ByteSeqsOfLen(k) : k \in 0..MaxBytes}, p \in Paddings}

\* The bools of a byte slice, the least significant bit of each byte first.
BitsOfBytes(bytes) ==
    [i \in 1..(8 * Len(bytes)) |->
        (bytes[((i - 1) \div 8) + 1] \div (2 ^ ((i - 1) % 8))) % 2 # 0]

\* The bits a freshly constructed source holds for its reader: the slice, less
\* the padding bits at its end.
Available(src) ==
    IF src.kind = "bool" THEN src.slice
    ELSE IF src.num_padding_bits >= 8 * Len(src.slice) THEN <<>>
    ELSE SubSeq(BitsOfBytes(src.slice), 1, 8 * Len(src.slice) - src.num_padding_bits)

InitSource ==
    /\ overflow_checks \in BOOLEAN
    /\ protocol = SimpleNew
    /\ \/ source \in BoolSources
       \/ source \in U8Sources
    /\ content = Available(source)
    /\ sink = <<>>
    /\ written = <<>>
    /\ results = <<>>
    /\ pc = "reading"

\* What a read leaves in `results`: the dest length asked for, the bits of
\* `content` the reads before it were due, and what it returned.
ReadOutcome(r, n) ==
    [n |-> n, due |-> Min(Len(content), source.asked),
     status |-> r.status, dest |-> r.dest, read_bools |-> r.read_bools]

\* source.read(&mut dest) with a dest of n bools.
Read ==
    /\ pc = "reading"
    /\ Len(results) < MaxReads
    /\ \E n \in 0..MaxDest :
          \E r \in {SourceRead(source, [i \in 1..n |-> FALSE], overflow_checks)} :
              /\ results' = Append(results, ReadOutcome(r, n))
              /\ source' = r.src
              /\ pc' = IF r.status = "Panic" THEN "panicked" ELSE "reading"
    /\ UNCHANGED <<overflow_checks, protocol, sink, written, content>>

NextSource == Read

SpecSource == InitSource /\ [][NextSource]_vars

\* ------------------------------------------------- bools packed into bytes

\* The inner loop of bools_to_bytes: the byte of one chunk of at most 8 bools,
\* missing bools counting as false.
RECURSIVE ChunkByteMostSignificantFirst(_, _, _)
ChunkByteMostSignificantFirst(bool_tuple, bit_index, current_byte) ==
    IF bit_index = 8 THEN current_byte
    ELSE ChunkByteMostSignificantFirst(bool_tuple, bit_index + 1,
                   IF Len(bool_tuple) > bit_index /\ bool_tuple[bit_index + 1]
                   THEN current_byte + 2 ^ (7 - bit_index)
                   ELSE current_byte)

RECURSIVE ChunkByte(_, _, _)
ChunkByte(bool_tuple, bit_index, current_byte) ==
    IF bit_index = 8 THEN current_byte
    ELSE ChunkByte(bool_tuple, bit_index + 1,
                   IF Len(bool_tuple) > bit_index /\ bool_tuple[bit_index + 1]
                   THEN current_byte + 2 ^ bit_index
                   ELSE current_byte)

\* bools.chunks(8), the c-th chunk (1-based).
Chunk(bools, c) == SubSeq(bools, 8 * (c - 1) + 1, Min(8 * c, Len(bools)))

\* lib.rs bools_to_bytes
bools_to_bytes(bools) ==
    [c \in 1..((Len(bools) + 7) \div 8) |-> ChunkByte(Chunk(bools, c), 0, 0)]

BytesToBoolsMostSignificantFirst(bytes) ==
    [i \in 1..(Len(bytes) * 8) |->
        (bytes[((i - 1) \div 8) + 1] \div (2 ^ (7 - ((i - 1) % 8)))) % 2 # 0]

\* lib.rs bytes_to_bools
bytes_to_bools(bytes) ==
    [i \in 1..(Len(bytes) * 8) |->
        (bytes[((i - 1) \div 8) + 1] \div (2 ^ ((i - 1) % 8))) % 2 # 0]

\* ------------------------ a u8 source beside the bool source it was packed from

\* The harness of the u8 source tests: the bytes of the bools, and as padding
\* the bits of the last byte the bools do not fill.
PackedSource(bools) ==
    U8SliceBitSource(bools_to_bytes(bools),
                     8 * Len(bools_to_bytes(bools)) - Len(bools))

\* In this specification `source` holds both sources and `results` the
\* latest read of each.
InitTwin ==
    /\ overflow_checks \in BOOLEAN
    /\ protocol = SimpleNew
    /\ content \in BitSeqs(MaxPackedBits)
    /\ source = [bool |-> BoolSliceBitSource(content), u8 |-> PackedSource(content)]
    /\ sink = <<>>
    /\ written = <<>>
    /\ results = <<>>
    /\ pc = "reading"

TwinOutcome(n, b, u) ==
    [n |-> n,
     bool |-> [status |-> b.status, dest |-> b.dest, read_bools |-> b.read_bools],
     u8 |-> [status |-> u.status, dest |-> u.dest, read_bools |-> u.read_bools]]

\* A dest of n bools holding true and false in turn, to tell the slots a read
\* fills from those it leaves alone.
Dest(n) == [i \in 1..n |-> i % 2 = 1]

\* The same read call on both sources.
ReadBoth ==
    /\ pc = "reading"
    /\ \E n \in 0..MaxDest :
          \E b \in {SourceRead(source.bool, Dest(n), overflow_checks)} :
          \E u \in {SourceRead(source.u8, Dest(n), overflow_checks)} :
              /\ results' = <<TwinOutcome(n, b, u)>>
              /\ source' = [bool |-> [b.src EXCEPT !.asked = 0],
                            u8 |-> [u.src EXCEPT !.asked = 0]]
              /\ pc' = IF u.status = "Panic" THEN "panicked" ELSE "reading"
    /\ UNCHANGED <<overflow_checks, protocol, sink, written, content>>

NextTwin == ReadBoth

SpecTwin == InitTwin /\ [][NextTwin]_vars

\* --------------------------------------------------------------- bit sinks

BoolVecBitSink == [kind |-> "bool_vec", vec |-> <<>>]
U8VecBitSink == [kind |-> "u8_vec", bytes |-> <<>>, bit_index |-> 0]
U32VecBitSink == [kind |-> "u32_vec", ints |-> <<>>, bit_index |-> 0]
VoidBitSink == [kind |-> "void"]

U8WithBitMostSignificantFirst(current_byte, bit_index, bit) ==
    IF bit /\ (current_byte \div (2 ^ (7 - bit_index))) % 2 = 0
    THEN current_byte + 2 ^ (7 - bit_index)
    ELSE current_byte

\* current_byte |= 1 << bit_index when the bit is set.
U8WithBit(current_byte, bit_index, bit) ==
    IF bit /\ (current_byte \div (2 ^ bit_index)) % 2 = 0
    THEN current_byte + 2 ^ bit_index
    ELSE current_byte

\* One pass of the loop of U8VecBitSink::write; `next` is the position of
\* the iterator over bits.
U8WriteStep(st, bit) ==
    IF st.bit_index + 1 = 8
    THEN [bytes |-> Append(st.bytes, U8WithBit(st.current_byte, st.bit_index, bit)),
          bit_index |-> 0, current_byte |-> 0, next |-> st.next + 1]
    ELSE [bytes |-> st.bytes, bit_index |-> st.bit_index + 1,
          current_byte |-> U8WithBit(st.current_byte, st.bit_index, bit),
          next |-> st.next + 1]

\* Up to n passes of `for bit in bits`, split in halves to keep the
\* evaluation shallow.
RECURSIVE U8WriteSpan(_, _, _)
U8WriteSpan(st, bits, n) ==
    IF st.next > Len(bits) \/ n = 0 THEN st
    ELSE IF n = 1 THEN U8WriteStep(st, bits[st.next])
    ELSE U8WriteSpan(U8WriteSpan(st, bits, n \div 2), bits, n - n \div 2)

U8WrittenWithCurrentByte(self, done) ==
    [self EXCEPT !.bytes = Append(done.bytes, done.current_byte),
                 !.bit_index = done.bit_index]

\* The end of U8VecBitSink::write: a partial byte is pushed.
U8Written(self, done) ==
    [self EXCEPT !.bytes = IF done.bit_index # 0
                           THEN Append(done.bytes, done.current_byte)
                           ELSE done.bytes,
                 !.bit_index = done.bit_index]

U8VecWriteFromNewByte(self, bits) ==
    U8Written(self,
              U8WriteSpan([bytes |-> self.bytes, bit_index |-> 0,
                           current_byte |-> 0, next |-> 1],
                          bits, Len(bits)))

\* U8VecBitSink::write
U8VecWrite(self, bits) ==
    U8Written(self,
              U8WriteSpan(IF self.bit_index = 0
                          THEN [bytes |-> self.bytes, bit_index |-> 0,
                                current_byte |-> 0, next |-> 1]
                          ELSE [bytes |-> SubSeq(self.bytes, 1, Len(self.bytes) - 1),
                                bit_index |-> self.bit_index,
                                current_byte |-> self.bytes[Len(self.bytes)],
                                next |-> 1],
                          bits, Len(bits)))

U8VecGetBoolsOfWholeBytes(self) == bytes_to_bools(self.bytes)

\* U8VecBitSink::get_bools
U8VecGetBools(self) ==
    IF self.bit_index > 0
    THEN SubSeq(bytes_to_bools(self.bytes), 1,
                Len(self.bytes) * 8 - (8 - self.bit_index))
    ELSE bytes_to_bools(self.bytes)

\* U8VecBitSink::get_num_bools
U8VecGetNumBools(self) ==
    IF self.bit_index = 0 THEN Len(self.bytes) * 8
    ELSE (Len(self.bytes) - 1) * 8 + self.bit_index

\* current_int |= 1 << bit_index when the bit is set; a u32 is held as a
\* number of the machine arithmetic above.
U32WithBit(current_int, bit_index, bit) ==
    IF bit /\ ~NatBit(current_int, bit_index)
    THEN NatAdd(current_int, NatPow2(bit_index))
    ELSE current_int

\* One pass of the loop of U32VecBitSink::write; `next` is the position of
\* the iterator over bits.
U32WriteStep(st, bit) ==
    IF st.bit_index + 1 = 32
    THEN [ints |-> Append(st.ints, U32WithBit(st.current_int, st.bit_index, bit)),
          bit_index |-> 0, current_int |-> <<>>, next |-> st.next + 1]
    ELSE [ints |-> st.ints, bit_index |-> st.bit_index + 1,
          current_int |-> U32WithBit(st.current_int, st.bit_index, bit),
          next |-> st.next + 1]

\* Up to n passes of `for bit in bits`, split in halves.
RECURSIVE U32WriteSpan(_, _, _)
U32WriteSpan(st, bits, n) ==
    IF st.next > Len(bits) \/ n = 0 THEN st
    ELSE IF n = 1 THEN U32WriteStep(st, bits[st.next])
    ELSE U32WriteSpan(U32WriteSpan(st, bits, n \div 2), bits, n - n \div 2)

\* The end of U32VecBitSink::write: a partial int is pushed.
U32Written(self, done) ==
    [self EXCEPT !.ints = IF done.bit_index # 0
                          THEN Append(done.ints, done.current_int)
                          ELSE done.ints,
                 !.bit_index = done.bit_index]

\* U32VecBitSink::write
U32VecWrite(self, bits) ==
    U32Written(self,
               U32WriteSpan(IF self.bit_index = 0
                            THEN [ints |-> self.ints, bit_index |-> 0,
                                  current_int |-> <<>>, next |-> 1]
                            ELSE [ints |-> SubSeq(self.ints, 1, Len(self.ints) - 1),
                                  bit_index |-> self.bit_index,
                                  current_int |-> self.ints[Len(self.ints)],
                                  next |-> 1],
                            bits, Len(bits)))

\* The first loop of U32VecBitSink::get_bools: 32 bools of each of the first
\* first_bound ints.
U32WholeBools(ints, first_bound) ==
    [i \in 1..(first_bound * 32) |-> NatBit(ints[((i - 1) \div 32) + 1], (i - 1) % 32)]

\* The second loop: bit_index bools of the last int.
U32LastBools(ints, bit_index) ==
    IF Len(ints) > 0
    THEN [i \in 1..bit_index |-> NatBit(ints[Len(ints)], i - 1)]
    ELSE <<>>

\* U32VecBitSink::get_bools
U32VecGetBools(self) ==
    U32WholeBools(self.ints,
                  IF self.bit_index = 0 THEN Len(self.ints) ELSE Len(self.ints) - 1)
        \o U32LastBools(self.ints, self.bit_index)

U32VecGetNumBoolsOfAllInts(self) == Len(self.ints) * 32 + self.bit_index

\* U32VecBitSink::get_num_bools
U32VecGetNumBools(self) ==
    IF self.bit_index = 0 THEN Len(self.ints) * 32
    ELSE (Len(self.ints) - 1) * 32 + self.bit_index

\* BitSink::write, dispatched on the implementation.
SinkWrite(self, bits) ==
    CASE self.kind = "bool_vec" -> [self EXCEPT !.vec = self.vec \o bits]
      [] self.kind = "u8_vec" -> U8VecWrite(self, bits)
      [] self.kind = "u32_vec" -> U32VecWrite(self, bits)
      [] self.kind = "void" -> self

\* BoolVecBitSink::get_bits, U8VecBitSink::get_bools, U32VecBitSink::get_bools
SinkBools(self) ==
    CASE self.kind = "bool_vec" -> self.vec
      [] self.kind = "u8_vec" -> U8VecGetBools(self)
      [] self.kind = "u32_vec" -> U32VecGetBools(self)

\* BitSink::get_num_bools of the implementations that define it.
SinkNumBools(self) ==
    CASE self.kind = "u8_vec" -> U8VecGetNumBools(self)
      [] self.kind = "u32_vec" -> U32VecGetNumBools(self)
      [] self.kind = "void" -> 0

\* ------------------------------------------------------- writes to a sink

\* The slices written: the short ones, and for each unit width one as long as
\* the unit, one a bool shorter and one a bool longer.
UnitWidths == {8, 32}
SinkSlices ==
    BitSeqs(MaxShortSlice) \cup {Dest(w + k) : w \in UnitWidths, k \in {-1, 0, 1}}

\* In this specification `sink` is a sink of any implementation, `content`
\* the bools written to it so far and `written` the length of each write.
InitSink ==
    /\ overflow_checks \in BOOLEAN
    /\ protocol = SimpleNew
    /\ sink \in {BoolVecBitSink, U8VecBitSink, U32VecBitSink, VoidBitSink}
    /\ content = <<>>
    /\ written = <<>>
    /\ source = "none"
    /\ results = <<>>
    /\ pc = "writing"

\* sink.write(&bits)
Write ==
    /\ pc = "writing"
    /\ Len(written) < MaxSinkWrites
    /\ \E bits \in SinkSlices :
          /\ sink' = SinkWrite(sink, bits)
          /\ content' = content \o bits
          /\ written' = Append(written, Len(bits))
    /\ UNCHANGED <<overflow_checks, protocol, source, results, pc>>

NextSink == Write

SpecSink == InitSink /\ [][NextSink]_vars

\* ------------------------------------------ bytes to bools and back again

\* The byte sequences converted: every first byte before some second byte,
\* and the sequences of every length up to MaxRoundTripBytes of a few bytes.
RoundTripBytes ==
    {<<first, second>> : first \in 0..U8Max, second \in ByteValues}
        \cup UNION {ByteSeqsOfLen(n) : n \in 0..MaxRoundTripBytes}

\* In this specification `content` is the byte sequence, `sink` the bools
\* made of it and `results` the bytes made of those bools.
InitBytes ==
    /\ overflow_checks \in BOOLEAN
    /\ protocol = SimpleNew
    /\ content \in RoundTripBytes
    /\ sink = <<>>
    /\ written = <<>>
    /\ source = "none"
    /\ results = <<>>
    /\ pc = "bytes"

\* let as_bools = bytes_to_bools(&bytes)
ToBools ==
    /\ pc = "bytes"
    /\ sink' = bytes_to_bools(content)
    /\ pc' = "bools"
    /\ UNCHANGED <<overflow_checks, protocol, written, source, content, results>>

\* let as_bytes = bools_to_bytes(&as_bools)
ToBytes ==
    /\ pc = "bools"
    /\ results' = bools_to_bytes(sink)
    /\ pc' = "converted"
    /\ UNCHANGED <<overflow_checks, protocol, sink, written, source, content>>

NextBytes ==
    \/ ToBools
    \/ ToBytes

SpecBytes == InitBytes /\ [][NextBytes]_vars

\* ------------------------------------------ bools to bytes and back again

\* The bool sequences converted: every short one, and longer ones that end a
\* bool before, at and a bool after the end of the second byte.
RoundTripBools ==
    BitSeqs(MaxPackedBits) \cup {Dest(n) : n \in {15, 16, 17}}

\* In this specification `content` is the bool sequence, `results` the bytes
\* made of it and `sink` the bools made of those bytes.
InitBools ==
    /\ overflow_checks \in BOOLEAN
    /\ protocol = SimpleNew
    /\ content \in RoundTripBools
    /\ sink = <<>>
    /\ written = <<>>
    /\ source = "none"
    /\ results = <<>>
    /\ pc = "bools"

\* let as_bytes = bools_to_bytes(&bools)
Pack ==
    /\ pc = "bools"
    /\ results' = bools_to_bytes(content)
    /\ pc' = "packed"
    /\ UNCHANGED <<overflow_checks, protocol, sink, written, source, content>>

\* let as_bools = bytes_to_bools(&as_bytes)
Unpack ==
    /\ pc = "packed"
    /\ sink' = bytes_to_bools(results)
    /\ pc' = "unpacked"
    /\ UNCHANGED <<overflow_checks, protocol, written, source, content, results>>

NextBools ==
    \/ Pack
    \/ Unpack

SpecBools == InitBools /\ [][NextBools]_vars

\* ------------------------------------------- construction of a digit codec

\* No instance yet.
NoProtocol == [kind |-> "none"]

\* In this specification `protocol` is the instance a constructor returned,
\* NoProtocol before the call and after one that panicked, `written` the call
\* made and `results` what the constructed encoder then wrote.
InitNew ==
    /\ overflow_checks \in BOOLEAN
    /\ protocol = NoProtocol
    /\ sink = <<>>
    /\ written = <<>>
    /\ source = "none"
    /\ content = <<>>
    /\ results = <<>>
    /\ pc = "start"

\* The call of a constructor and what it leaves.
Construct(who, v1, digit_size, short_zero_and_one) ==
    /\ written' = <<[who |-> who, v1 |-> v1, digit_size |-> digit_size,
                     short_zero_and_one |-> short_zero_and_one]>>
    /\ \E made \in {DigitNew(digit_size, short_zero_and_one)} :
          /\ protocol' = IF made.kind = "panic" THEN NoProtocol ELSE made
          /\ pc' = IF made.kind = "panic" THEN "panicked" ELSE "constructed"
    /\ UNCHANGED <<overflow_checks, sink, source, content, results>>

\* DigitIntEncodingProtocol::new(digit_size, short_zero_and_one)
NewEncoder ==
    /\ pc = "start"
    /\ \E digit_size \in 0..U8Max, short_zero_and_one \in BOOLEAN :
          Construct("encoder", FALSE, digit_size, short_zero_and_one)

\* DigitDecodingProtocol::new(digit_size, short_zero_and_one)
NewDecoder ==
    /\ pc = "start"
    /\ \E digit_size \in 0..U8Max, short_zero_and_one \in BOOLEAN :
          Construct("decoder", FALSE, digit_size, short_zero_and_one)

\* DigitIntEncodingProtocol::v1()
V1Encoder ==
    /\ pc = "start"
    /\ Construct("encoder", TRUE, 3, TRUE)

\* DigitDecodingProtocol::v1()
V1Decoder ==
    /\ pc = "start"
    /\ Construct("decoder", TRUE, 3, TRUE)

\* The values of the largest magnitude of a type.
Extremes(signed, bits) ==
    IF signed
    THEN {NatSub(NatPow2(bits - 1), <<1>>), SignExtend(NatPow2(bits - 1), bits)}
    ELSE {NatSub(NatPow2(bits), <<1>>)}

\* encoder.write_uN(sink, value) / write_iN(sink, value) with the encoder
\* just constructed, for an extreme value of the type.
WriteExtreme ==
    /\ pc = "constructed"
    /\ written[1].who = "encoder"
    /\ \E ty \in IntTypes : \E value \in Extremes(ty[1], ty[2]) :
          \E w \in {EncoderWrite(protocol, ty[1], ty[2], value, overflow_checks)} :
              /\ sink' = sink \o w.prefix \o w.bits
              /\ results' = <<WrittenInt(ty[1], ty[2], value, w)>>
    /\ pc' = "written"
    /\ UNCHANGED <<overflow_checks, protocol, written, source, content>>

NextNew ==
    \/ NewEncoder
    \/ NewDecoder
    \/ V1Encoder
    \/ V1Decoder
    \/ WriteExtreme

SpecNew == InitNew /\ [][NextNew]_vars

\* ------------------------------- one value written twice, to every sink

\* The digits of a digit part, one slice each.
Groups(bits, digit_size) ==
    [i \in 1..(Len(bits) \div digit_size) |->
        SubSeq(bits, (i - 1) * digit_size + 1, i * digit_size)]

\* The sink.write calls before the digit part: one of two bools for a short 0
\* or 1, otherwise one for each bool.
PrefixCalls(prefix) ==
    IF Len(prefix) = 2 /\ prefix[1] THEN <<prefix>>
    ELSE [i \in 1..Len(prefix) |-> <<prefix[i]>>]

\* The slices one write method hands to sink.write, in call order: the simple
\* codec all bits at once, the digit codec the prefix, then digit by digit.
WriteCalls(self, w) ==
    IF self.kind = "simple" THEN <<w.bits>>
    ELSE PrefixCalls(w.prefix) \o Groups(w.bits, self.digit_size)

\* The calls calls[st.next] .. in order on one sink, split in halves.
RECURSIVE SinkWritesSpan(_, _, _)
SinkWritesSpan(st, calls, n) ==
    IF st.next > Len(calls) \/ n = 0 THEN st
    ELSE IF n = 1
    THEN [sink |-> SinkWrite(st.sink, calls[st.next]), next |-> st.next + 1]
    ELSE SinkWritesSpan(SinkWritesSpan(st, calls, n \div 2), calls, n - n \div 2)

AllWritten(self, calls) ==
    SinkWritesSpan([sink |-> self, next |-> 1], calls, Len(calls)).sink

\* The same calls on a sink of each implementation that keeps the bools.
EachWritten(sinks, calls) ==
    [k \in DOMAIN sinks |-> AllWritten(sinks[k], calls)]

\* What is in the sinks before the value is written.
WritesBefore == BitSeqs(MaxShortSlice) \cup {Dest(7)}

\* The values written twice: every one of a type of 8 bits, a few of the others.
TwiceValues(signed, bits) ==
    IF bits = 8 THEN ValuesOf(signed, bits)
    ELSE StreamValues(signed, bits) \cup {<<1>>, <<2>>, <<227>>}

\* In this specification `sink` holds a sink of each implementation and
\* `written` the writes of the value.
InitTwice ==
    /\ overflow_checks \in BOOLEAN
    /\ protocol \in Protocols
    /\ sink = [bool_vec |-> BoolVecBitSink, u8_vec |-> U8VecBitSink,
               u32_vec |-> U32VecBitSink]
    /\ written = <<>>
    /\ source = "none"
    /\ content = <<>>
    /\ results = <<>>
    /\ pc = "fresh"

\* sink.write(&bits) on each sink, before the value.
WriteBefore ==
    /\ pc = "fresh"
    /\ \E bits \in WritesBefore :
          /\ sink' = EachWritten(sink, <<bits>>)
          /\ content' = bits
    /\ pc' = "primed"
    /\ UNCHANGED <<overflow_checks, protocol, written, source, results>>

\* The harness's note of one write of the value.
WrittenTo(signed, bits, value, w) ==
    [signed |-> signed, bits |-> bits, value |-> value,
     length |-> Len(w.prefix) + Len(w.bits)]

\* encoder.write_uN(sink, value) / write_iN(sink, value) on each sink.
WriteTo(signed, bits, value) ==
    \E w \in {EncoderWrite(protocol, signed, bits, value, overflow_checks)} :
        /\ sink' = EachWritten(sink, WriteCalls(protocol, w))
        /\ written' = Append(written, WrittenTo(signed, bits, value, w))

WriteFirst ==
    /\ pc = "primed"
    /\ \E ty \in StreamTypes : \E value \in TwiceValues(ty[1], ty[2]) :
          WriteTo(ty[1], ty[2], value)
    /\ pc' = "once"
    /\ UNCHANGED <<overflow_checks, protocol, source, content, results>>

\* The same value of the same type once more.
WriteAgain ==
    /\ pc = "once"
    /\ WriteTo(written[1].signed, written[1].bits, written[1].value)
    /\ pc' = "twice"
    /\ UNCHANGED <<overflow_checks, protocol, source, content, results>>

NextTwice ==
    \/ WriteBefore
    \/ WriteFirst
    \/ WriteAgain

SpecTwice == InitTwice /\ [][NextTwice]_vars

\* --------------------- one value written with and without short_zero_and_one

\* In this specification `protocol` is the encoder with short_zero_and_one,
\* `source` the encoder of the same digit_size without it, `sink` the bools
\* each of them wrote and `written` the value with the number of data digits
\* of each.
InitCost ==
    /\ overflow_checks \in BOOLEAN
    /\ \E digit_size \in DigitSizes :
          /\ protocol = DigitNew(digit_size, TRUE)
          /\ source = DigitNew(digit_size, FALSE)
    /\ sink = [special |-> <<>>, regular |-> <<>>]
    /\ written = <<>>
    /\ content = <<>>
    /\ results = <<>>
    /\ pc = "writing"

\* The value written and the data digits of both writes.
WrittenBoth(signed, bits, value, special, regular) ==
    [signed |-> signed, bits |-> bits, value |-> value,
     special_digits |-> special.num_digits, regular_digits |-> regular.num_digits]

\* special_encoder.write_uN(sink, value) and regular_encoder.write_uN(sink,
\* value), each on a BoolVecBitSink of its own; likewise write_iN.
WriteBoth ==
    /\ pc = "writing"
    /\ \E ty \in IntTypes : \E value \in ValuesOf(ty[1], ty[2]) :
          \E special \in {EncoderWrite(protocol, ty[1], ty[2], value, overflow_checks)} :
          \E regular \in {EncoderWrite(source, ty[1], ty[2], value, overflow_checks)} :
              /\ sink' = [special |-> special.prefix \o special.bits,
                          regular |-> regular.prefix \o regular.bits]
              /\ written' = <<WrittenBoth(ty[1], ty[2], value, special, regular)>>
    /\ pc' = "written"
    /\ UNCHANGED <<overflow_checks, protocol, source, content, results>>

NextCost == WriteBoth

SpecCost == InitCost /\ [][NextCost]_vars

\* ------------------------ the simple codec's helpers of any number of bits

\* The bit counts the helpers are called with, and for each the values of
\* that many bits: around the least, around 0 and around the greatest.
HelperWidths == 1..U128Bits
HelperValues(signed, num_bits) ==
    IF signed
    THEN {SignExtend(p, num_bits) : p \in PatternsOf(num_bits, NatSub(NatPow2(num_bits), <<1>>))}
    ELSE PatternsOf(num_bits, NatSub(NatPow2(num_bits), <<1>>))

\* The write of one helper call to a BoolVecBitSink.
WriteHelper(signed, num_bits, value, w) ==
    /\ sink' = IF w.status = "Ok" THEN w.prefix \o w.bits ELSE sink
    /\ written' = <<WrittenInt(signed, num_bits, value, w)>>
    /\ pc' = IF w.status = "Ok" THEN "writing" ELSE "panicked"

\* SimpleEncodingProtocol::new().write_unsigned(sink, num_bits, value)
WriteUnsigned ==
    /\ pc = "writing"
    /\ written = <<>>
    /\ \E num_bits \in HelperWidths : \E value \in HelperValues(FALSE, num_bits) :
          WriteHelper(FALSE, num_bits, value,
                      SimpleEncoded([status |-> "Ok",
                                     bits |-> SimpleWriteUnsigned(num_bits, value)]))
    /\ UNCHANGED <<overflow_checks, protocol, source, content, results>>

\* SimpleEncodingProtocol::new().write_signed(sink, num_bits, value)
WriteSigned ==
    /\ pc = "writing"
    /\ written = <<>>
    /\ \E num_bits \in HelperWidths : \E value \in HelperValues(TRUE, num_bits) :
          WriteHelper(TRUE, num_bits, value,
                      SimpleEncoded(SimpleWriteSigned(num_bits, value, overflow_checks)))
    /\ UNCHANGED <<overflow_checks, protocol, source, content, results>>

\* The read of one helper call, with the u128 or i128 it returned.
ReadHelper(signed, num_bits, r) ==
    /\ results' = <<Outcome(r, signed, num_bits)>>
    /\ source' = r.src

\* SimpleDecodingProtocol::new().read_unsigned(source, num_bits)
ReadUnsigned ==
    /\ pc = "reading"
    /\ results = <<>>
    /\ ~written[1].signed
    /\ ReadHelper(FALSE, written[1].bits,
                  SimpleReadUnsigned(source, written[1].bits, overflow_checks))
    /\ UNCHANGED <<overflow_checks, protocol, sink, written, content, pc>>

\* SimpleDecodingProtocol::new().read_signed(source, num_bits)
ReadSigned ==
    /\ pc = "reading"
    /\ results = <<>>
    /\ written[1].signed
    /\ ReadHelper(TRUE, written[1].bits,
                  SimpleReadSigned(source, written[1].bits, overflow_checks))
    /\ UNCHANGED <<overflow_checks, protocol, sink, written, content, pc>>

InitHelpers ==
    /\ overflow_checks \in BOOLEAN
    /\ protocol = SimpleNew
    /\ sink = <<>>
    /\ written = <<>>
    /\ source = "none"
    /\ content = <<>>
    /\ results = <<>>
    /\ pc = "writing"

NextHelpers ==
    \/ WriteUnsigned
    \/ WriteSigned
    \/ OpenSource
    \/ ReadUnsigned
    \/ ReadSigned

SpecHelpers == InitHelpers /\ [][NextHelpers]_vars

\* ------------------------------------- one value written, then cut short

InitTruncated ==
    /\ overflow_checks \in BOOLEAN
    /\ protocol \in {DigitNew(d, s) : d \in DigitSizes, s \in BOOLEAN}
    /\ sink = <<>>
    /\ written = <<>>
    /\ source = "none"
    /\ content = <<>>
    /\ results = <<>>
    /\ pc = "writing"

\* The values cut short: every u8, and of the other types the least and the
\* greatest, 0, 2 and -1.
TruncatedValues(signed, bits) ==
    IF ~signed /\ bits = 8 THEN ValuesOf(signed, bits)
    ELSE {<<>>, <<2>>, NatSub(NatPow2(IF signed THEN bits - 1 ELSE bits), <<1>>)}
            \cup (IF signed THEN {SignExtend(NatPow2(bits - 1), bits), I128OfInt(-1)}
                  ELSE {})

\* encoder.write_uN(sink, value) / write_iN(sink, value) of any type.
WriteWhole ==
    /\ written = <<>>
    /\ \E ty \in IntTypes : \E value \in TruncatedValues(ty[1], ty[2]) :
          WriteInt(ty[1], ty[2], value)

\* BoolSliceBitSource::new(&sink.get_bits()[0..kept]) with kept less than
\* the number of bools written.
Truncate ==
    /\ pc = "writing"
    /\ written # <<>>
    /\ \E kept \in 0..(Len(sink) - 1) :
          /\ source' = BoolSliceBitSource(SubSeq(sink, 1, kept))
          /\ content' = SubSeq(sink, 1, kept)
    /\ pc' = "reading"
    /\ UNCHANGED <<overflow_checks, protocol, sink, written, results>>

\* decoder.read_uN(source) / read_iN(source) of the type written.
ReadTruncated ==
    /\ pc = "reading"
    /\ results = <<>>
    /\ ReadItem(written[1])
    /\ UNCHANGED <<overflow_checks, protocol, sink, written, content>>

NextTruncated ==
    \/ WriteWhole
    \/ Truncate
    \/ ReadTruncated

SpecTruncated == InitTruncated /\ [][NextTruncated]_vars

\* --------------------------- the same writes to a bool sink and a byte sink

\* U8VecBitSink::get_bytes
U8VecGetBytes(self) == self.bytes

\* BoolVecBitSink::to_bytes
BoolVecToBytes(self) == bools_to_bytes(self.vec)

\* Vec::shrink_to_fit: the elements stay, in order.
ShrinkToFit(vec) == [i \in 1..Len(vec) |-> vec[i]]

\* U8VecBitSink::finish
U8VecFinish(self) == [self EXCEPT !.bytes = ShrinkToFit(self.bytes)]

\* BoolVecBitSink::finish
BoolVecFinish(self) == [self EXCEPT !.vec = ShrinkToFit(self.vec)]

\* What the getters of the two sinks return.
Observed(sinks) ==
    [bits |-> sinks.bool_vec.vec,
     bytes |-> U8VecGetBytes(sinks.u8_vec),
     bools |-> U8VecGetBools(sinks.u8_vec),
     num_bools |-> U8VecGetNumBools(sinks.u8_vec)]

\* In this specification `sink` holds a BoolVecBitSink and a U8VecBitSink
\* given the same writes, `content` the bools written so far, `written` the
\* length of each write and `results` what the getters returned before
\* finish.
InitChunks ==
    /\ overflow_checks \in BOOLEAN
    /\ protocol = SimpleNew
    /\ sink = [bool_vec |-> BoolVecBitSink, u8_vec |-> U8VecBitSink]
    /\ content = <<>>
    /\ written = <<>>
    /\ source = "none"
    /\ results = <<>>
    /\ pc = "writing"

\* bool_sink.write(&bits) and u8_sink.write(&bits)
WriteChunk ==
    /\ pc = "writing"
    /\ Len(written) < MaxSinkWrites
    /\ \E bits \in SinkSlices :
          /\ sink' = [bool_vec |-> SinkWrite(sink.bool_vec, bits),
                      u8_vec |-> SinkWrite(sink.u8_vec, bits)]
          /\ content' = content \o bits
          /\ written' = Append(written, Len(bits))
    /\ UNCHANGED <<overflow_checks, protocol, source, results, pc>>

\* bool_sink.finish() and u8_sink.finish()
Finish ==
    /\ pc = "writing"
    /\ results' = <<Observed(sink)>>
    /\ sink' = [bool_vec |-> BoolVecFinish(sink.bool_vec),
                u8_vec |-> U8VecFinish(sink.u8_vec)]
    /\ pc' = "finished"
    /\ UNCHANGED <<overflow_checks, protocol, source, content, written>>

NextChunks ==
    \/ WriteChunk
    \/ Finish

SpecChunks == InitChunks /\ [][NextChunks]_vars

\* ------------------------------------------------------------------ claims

IsDigit == protocol.kind = "digit"

\* The table entry of the type of a written value.
MaxDigitsOf(item) == MaxNumDigits(protocol, item.signed, item.bits)

\* The k-th value written was read back as written.
ReadBack(k) == results[k].status = "Ok" /\ results[k].value = written[k].value

\* C1: with a digit codec of any digit_size and short_zero_and_one, every
\* unsigned value written by write_uN is returned by read_uN.
C1_DigitUnsignedRoundTrip ==
    IsDigit =>
        \A k \in 1..Len(results) : ~written[k].signed => ReadBack(k)

\* The largest u128, 0, 1 and 2 have each been written and read by a digit codec.
C1_Witness ==
    /\ IsDigit /\ protocol.short_zero_and_one
    /\ Len(results) = 1
    /\ ~written[1].signed /\ written[1].bits = U128Bits
    /\ written[1].value = U128Max
    /\ results[1].value = U128Max

\* C2: with a digit codec, every signed value written by write_iN is returned
\* by read_iN: sign bit, bias and negation are inverted exactly.
C2_DigitSignedRoundTrip ==
    IsDigit =>
        \A k \in 1..Len(results) : written[k].signed => ReadBack(k)

\* i8 -1 has been written and read under short_zero_and_one.
C2_Witness ==
    /\ IsDigit /\ protocol.short_zero_and_one
    /\ Len(results) = 1
    /\ written[1].signed /\ written[1].bits = 8
    /\ written[1].value = I128OfInt(-1)
    /\ results[1].value = I128OfInt(-1)

\* C4: with the simple codec, every value written by write_uN / write_iN is
\* returned by read_uN / read_iN.
C4_SimpleRoundTrip ==
    protocol.kind = "simple" => \A k \in 1..Len(results) : ReadBack(k)

\* i16 -32768 has been written and read by the simple codec.
C4_Witness ==
    /\ protocol.kind = "simple"
    /\ Len(results) = 1
    /\ written[1].signed /\ written[1].bits = 16
    /\ written[1].value = SignExtend(NatPow2(15), 16)
    /\ results[1].value = written[1].value

\* The table entry of the type of the k-th read.
MaxDigitsRead(k) == MaxNumDigits(protocol, results[k].signed, results[k].bits)

\* C7: on any source content a digit decode returns a value or an error: it
\* does not panic, and no operation of it overflows its 128-bit type.
C7_NoPanicNoOverflow ==
    IsDigit =>
        \A k \in 1..Len(results) :
            results[k].status # "Panic" /\ ~results[k].overflow

\* C8: on any source content a digit decode asks the source for at most two
\* prefix and sign bits and max_digits(width) digits of digit_size bits.
C8_BoundedReads ==
    IsDigit =>
        \A k \in 1..Len(results) :
            results[k].asked <= 2 + MaxDigitsRead(k) * protocol.digit_size

\* A decode that met no terminator stopped at the bound with bits left in
\* the source.
C8_Witness ==
    /\ IsDigit
    /\ written = <<>> /\ Len(results) = 1
    /\ results[1].status = "Ok"
    /\ results[1].asked = 2 + MaxDigitsRead(1) * protocol.digit_size
    /\ results[1].left > 0

\* The bits the source still held for the k-th read.
RemainingAt(k) == Len(content) - results[k].due

\* The first n bits the k-th read was due.
DueBits(k, n) == SubSeq(content, results[k].due + 1, results[k].due + n)

\* C9: a read of at most the remaining bits fills dest with the next bits in
\* source order and returns Ok; a read of more fills the front of dest with
\* the remaining bits and returns ReachedEnd with read_bools the number of
\* bits that remained.
C9_ReadContract ==
    \A k \in 1..Len(results) :
        IF results[k].n <= RemainingAt(k)
        THEN /\ results[k].status = "Ok"
             /\ results[k].dest = DueBits(k, results[k].n)
        ELSE /\ results[k].status = "ReachedEnd"
             /\ results[k].read_bools = RemainingAt(k)
             /\ SubSeq(results[k].dest, 1, RemainingAt(k)) = DueBits(k, RemainingAt(k))

\* C10: no read of either source panics, whatever num_padding_bits the source
\* was constructed with, and a read asking for more than is available fails
\* with the count of bits that were available.
C10_ExhaustionSafety ==
    \A k \in 1..Len(results) :
        /\ results[k].status # "Panic"
        /\ results[k].n > RemainingAt(k) =>
              results[k].status = "ReachedEnd" /\ results[k].read_bools = RemainingAt(k)

\* Had the source no bit left for the k-th read: all bits were due to earlier
\* reads, or an earlier read failed?
ExhaustedAt(k) ==
    \/ RemainingAt(k) = 0
    \/ \E j \in 1..(k - 1) : results[j].status = "ReachedEnd"

\* C11: once the bits of a source are exhausted, every later read that asks
\* for a bit fails with ReachedEnd and delivers none.
C11_ExhaustedStaysExhausted ==
    \A k \in 1..Len(results) :
        results[k].n > 0 /\ ExhaustedAt(k) =>
            results[k].status = "ReachedEnd" /\ results[k].read_bools = 0

\* C12: a u8 source over bools_to_bytes(x), its padding the unfilled bits of
\* the last byte, answers every read call as the bool source over x does:
\* the same Ok or ReachedEnd, the same read_bools, the same dest.
C12_PaddingNeverYielded ==
    \A k \in 1..Len(results) : results[k].u8 = results[k].bool

\* A read past the end of three bools packed into one byte with five padding
\* bits failed on both sources with what was left.
C12_Witness ==
    /\ Len(content) = 3
    /\ source.u8.num_padding_bits = 5
    /\ Len(results) = 1
    /\ results[1].n > 3
    /\ results[1].u8.status = "ReachedEnd"
    /\ results[1].u8.read_bools = 3
    /\ results[1].bool.read_bools = 3

\* The sinks that keep what is written to them.
Keeps(self) == self.kind \in {"bool_vec", "u8_vec", "u32_vec"}

\* The sinks that pack bools into units.
Packs(self) == self.kind \in {"u8_vec", "u32_vec"}

\* C13: after any writes, get_bits of a BoolVecBitSink and get_bools of a
\* U8VecBitSink and a U32VecBitSink are the written slices in call order, no
\* bool more.
C13_SinksAppendInOrder ==
    Keeps(sink) => SinkBools(sink) = content

\* Three writes to a U32VecBitSink that fill one int and begin the next.
C13_Witness ==
    /\ sink.kind = "u32_vec"
    /\ Len(written) = 3
    /\ Len(sink.ints) = 2 /\ sink.bit_index = 2
    /\ SinkBools(sink) = content

\* The count the packed sinks are to report: whole units, less the part of the
\* last one not yet written.
PackedCount(units, unit_width, bit_index) ==
    IF bit_index # 0 THEN (units - 1) * unit_width + bit_index ELSE units * unit_width

StoredUnits(self) == IF self.kind = "u8_vec" THEN Len(self.bytes) ELSE Len(self.ints)
UnitWidth(self) == IF self.kind = "u8_vec" THEN 8 ELSE 32

\* The sum of the lengths of all writes.
RECURSIVE SumOf(_)
SumOf(lengths) == IF lengths = <<>> THEN 0 ELSE Head(lengths) + SumOf(Tail(lengths))

\* C14: get_num_bools of a U8VecBitSink and a U32VecBitSink is (stored units
\* - 1) * unit width + bit_index with a partial unit, stored units * unit
\* width without, and is the number of bools written so far.
C14_PackedSinkCount ==
    Packs(sink) =>
        /\ SinkNumBools(sink) = PackedCount(StoredUnits(sink), UnitWidth(sink), sink.bit_index)
        /\ SinkNumBools(sink) = SumOf(written)

\* A U8VecBitSink whose second write completed a partial byte and filled a
\* whole one.
C14_Witness ==
    /\ sink.kind = "u8_vec"
    /\ Len(written) = 2 /\ written[1] = 7 /\ written[2] = 9
    /\ Len(sink.bytes) = 2 /\ sink.bit_index = 0
    /\ SinkNumBools(sink) = 16

\* C15: get_num_bools of every sink, the VoidBitSink included, is the number
\* of bools written to it so far.
C15_EverySinkCounts ==
    sink.kind \in {"u8_vec", "u32_vec", "void"} => SinkNumBools(sink) = Len(content)

\* The bits of the source consumed once the k-th read has returned.
Consumed(k) == Len(content) - results[k].left

\* C3: values written in sequence to one sink, raw bits between them, are
\* read back in the same order: each read returns the value written and
\* consumes exactly the bits its write produced, so the source is empty after
\* the last read.
C3_InOrderStream ==
    /\ \A k \in 1..Len(results) :
          /\ ReadBack(k)
          /\ Consumed(k) = written[k].start + written[k].length
    /\ Len(results) = Len(written) /\ results # <<>> => source.slice = <<>>

\* An integer, raw bits and an integer with no terminator were written and
\* all three read back by a digit codec.
C3_Witness ==
    /\ IsDigit
    /\ Len(written) = 3 /\ Len(results) = 3
    /\ ~written[1].raw /\ written[1].num_digits = MaxDigitsOf(written[1])
    /\ written[2].raw
    /\ ~written[3].raw /\ written[3].num_digits = MaxDigitsOf(written[3])
    /\ source.slice = <<>>

\* C5: the bits one digit write appends, prefix and sign bit included, never
\* exceed one terminator digit plus max_digits(width) digits.
C5_BoundedGrowth ==
    IsDigit =>
        \A k \in 1..Len(written) :
            written[k].length <= (1 + MaxDigitsOf(written[k])) * protocol.digit_size

\* A write that reaches the bound: prefix bit, sign bit and every digit.
C5_Witness ==
    /\ IsDigit
    /\ Len(written) = 1
    /\ written[1].num_digits = MaxDigitsOf(written[1])
    /\ written[1].length = (1 + MaxDigitsOf(written[1])) * protocol.digit_size

\* The digit part of the k-th write as it stands in the sink.
DigitPartBits(k) ==
    SubSeq(sink, written[k].start + written[k].prefix + 1,
           written[k].start + written[k].length)

AllOnes(bits) == \A i \in 1..Len(bits) : bits[i]

\* The last digit_size bits of the digit part.
LastDigit(k) ==
    SubSeq(DigitPartBits(k), Len(DigitPartBits(k)) - protocol.digit_size + 1,
           Len(DigitPartBits(k)))

\* Does the k-th write use the two-bit encoding of 0 and 1?
IsShort(k) == protocol.short_zero_and_one /\ written[k].value \in {<<>>, <<1>>}

\* The bits the k-th write appended to the sink.
WrittenBits(k) ==
    SubSeq(sink, written[k].start + 1, written[k].start + written[k].length)

\* The number a few bits denote, least significant bit first.
RECURSIVE IntOfBits(_)
IntOfBits(bits) ==
    IF bits = <<>> THEN 0 ELSE (IF Head(bits) THEN 1 ELSE 0) + 2 * IntOfBits(Tail(bits))

\* The i-th digit of a digit part of digits of d bits.
DigitAt(part, d, i) == IntOfBits(SubSeq(part, (i - 1) * d + 1, i * d))

\* The data digits of a digit part: all its digits but a closing 2^d - 1.
NumDataDigits(part, d) ==
    IF part # <<>> /\ DigitAt(part, d, Len(part) \div d) = 2 ^ d - 1
    THEN Len(part) \div d - 1
    ELSE Len(part) \div d

Squared(a) == NatMul(a, a)

\* base^e
RECURSIVE PowerOf(_, _)
PowerOf(base, e) ==
    IF e = 0 THEN <<1>>
    ELSE IF e % 2 = 0 THEN Squared(PowerOf(base, e \div 2))
    ELSE NatMul(base, PowerOf(base, e - 1))

\* The number the digits lo..hi denote in base 2^d - 1, digit lo the least
\* significant.
RECURSIVE ValueOfDigits(_, _, _, _)
ValueOfDigits(part, d, lo, hi) ==
    IF lo > hi THEN <<>>
    ELSE IF lo = hi THEN NatOfInt(DigitAt(part, d, lo))
    ELSE Norm(NatAdd(ValueOfDigits(part, d, lo, (lo + hi) \div 2),
                     NatMul(PowerOf(NatOfInt(2 ^ d - 1), (lo + hi) \div 2 - lo + 1),
                            ValueOfDigits(part, d, (lo + hi) \div 2 + 1, hi))))

\* part holds the data digits v mod (2^d - 1), (v div (2^d - 1)) mod (2^d - 1)
\* and so on until the quotient is 0, and after them at most a closing digit.
DigitsUntilZero(part, d, v, n) ==
    /\ Len(part) % d = 0
    /\ \A i \in 1..n : DigitAt(part, d, i) < 2 ^ d - 1
    /\ n > 0 => DigitAt(part, d, n) # 0
    /\ ValueOfDigits(part, d, 1, n) = v

IsDigitPartOf(part, d, v) == DigitsUntilZero(part, d, v, NumDataDigits(part, d))

\* The format of an unsigned value written by a digit codec.
UnsignedFormat(bits, d, short, v) ==
    IF short /\ v = <<>> THEN bits = <<TRUE, FALSE>>
    ELSE IF short /\ v = <<1>> THEN bits = <<TRUE, TRUE>>
    ELSE IF short
    THEN bits # <<>> /\ ~bits[1] /\ IsDigitPartOf(Tail(bits), d, NatSub(v, <<2>>))
    ELSE IsDigitPartOf(bits, d, v)

\* C16: a digit codec writes an unsigned 0 as 1,0 and 1 as 1,1 with
\* short_zero_and_one, any other value v as a 0 bit and the digit part of
\* v - 2, and without short_zero_and_one the digit part of v; the digit part
\* is v mod (2^d - 1) as d bits, least significant first, then the same for
\* v div (2^d - 1), until the value is 0.
C16_UnsignedDigitFormat ==
    IsDigit =>
        \A k \in 1..Len(written) : ~written[k].signed =>
            UnsignedFormat(WrittenBits(k), protocol.digit_size,
                           protocol.short_zero_and_one, written[k].value)

\* digit_size 4, short_zero_and_one: u8 255 is written as 0 1011 1000 1000.
C16_Witness ==
    /\ IsDigit /\ protocol.digit_size = 4 /\ protocol.short_zero_and_one
    /\ Len(written) = 1
    /\ ~written[1].signed /\ written[1].bits = 8 /\ written[1].value = <<255>>
    /\ sink = <<FALSE, TRUE, FALSE, TRUE, TRUE, TRUE, FALSE, FALSE, FALSE,
                TRUE, FALSE, FALSE, FALSE>>

\* The digits after the sign bit: of -(v + 1) for a negative v, of v - 2 for
\* another one behind the prefix bit, of v with no prefix.
SignedDigitPartOf(rest, d, short, v) ==
    /\ rest # <<>>
    /\ rest[1] = I128Negative(v)
    /\ IsDigitPartOf(Tail(rest), d,
                     IF I128Negative(v) THEN NatSub(U128Max, v)
                     ELSE IF short THEN NatSub(v, <<2>>)
                     ELSE v)

\* The format of a signed value written by a digit codec.
SignedFormat(bits, d, short, v) ==
    IF short /\ v = <<>> THEN bits = <<TRUE, FALSE>>
    ELSE IF short /\ v = <<1>> THEN bits = <<TRUE, TRUE>>
    ELSE IF short
    THEN bits # <<>> /\ ~bits[1] /\ SignedDigitPartOf(Tail(bits), d, short, v)
    ELSE SignedDigitPartOf(bits, d, short, v)

\* C17: a digit codec writes a signed value as the short_zero_and_one prefix
\* (1,0 for 0, 1,1 for 1, a 0 bit for any other value, nothing when
\* disabled), then one sign bit, 1 for a negative value, then the digit part
\* of -(v + 1) for a negative v, of v - 2 for a non-negative v behind the
\* prefix bit, of v with no prefix.
C17_SignedDigitFormat ==
    IsDigit =>
        \A k \in 1..Len(written) : written[k].signed =>
            SignedFormat(WrittenBits(k), protocol.digit_size,
                         protocol.short_zero_and_one, written[k].value)

\* digit_size 4, short_zero_and_one: i8 -128 is written as 01 1110 0001.
C17_Witness ==
    /\ IsDigit /\ protocol.digit_size = 4 /\ protocol.short_zero_and_one
    /\ Len(written) = 1
    /\ written[1].signed /\ written[1].bits = 8
    /\ written[1].value = I128OfInt(-128)
    /\ sink = <<FALSE, TRUE, TRUE, TRUE, TRUE, FALSE, FALSE, FALSE, FALSE, TRUE>>

IsSimple == protocol.kind = "simple"

\* The number the bools lo..hi denote, bool lo the least significant bit.
RECURSIVE NatOfBits(_, _, _)
NatOfBits(bits, lo, hi) ==
    IF lo > hi THEN <<>>
    ELSE IF lo = hi THEN (IF bits[lo] THEN <<1>> ELSE <<>>)
    ELSE Norm(NatAdd(NatOfBits(bits, lo, (lo + hi) \div 2),
                     NatMul(NatPow2((lo + hi) \div 2 - lo + 1),
                            NatOfBits(bits, (lo + hi) \div 2 + 1, hi))))

\* The N-bit two's-complement pattern of the i128 v: v + 2^N for a negative
\* v, v itself otherwise.
TwosComplement(v, N) ==
    IF I128Negative(v) THEN NatSub(v, NatSub(NatPow2(U128Bits), NatPow2(N))) ELSE v

\* C18: the simple codec writes exactly N bits for a uN, the i-th being bit i
\* of the value, least significant first, and for an iN the N-bit
\* two's-complement pattern (value + 2^N for a negative value) the same way.
C18_SimpleFormat ==
    IsSimple =>
        \A k \in 1..Len(written) :
            /\ Len(WrittenBits(k)) = written[k].bits
            /\ NatOfBits(WrittenBits(k), 1, written[k].bits)
                   = IF written[k].signed
                     THEN TwosComplement(written[k].value, written[k].bits)
                     ELSE written[k].value

\* i8 -128 is written as 0000 0001.
C18_Witness ==
    /\ IsSimple
    /\ Len(written) = 1
    /\ written[1].signed /\ written[1].bits = 8
    /\ written[1].value = I128OfInt(-128)
    /\ sink = <<FALSE, FALSE, FALSE, FALSE, FALSE, FALSE, FALSE, TRUE>>

\* The unsigned reconstruction of the bits the k-th read took from the
\* source, least significant bit first.
Reconstruction(k) ==
    NatOfBits(content, written[k].start + 1, written[k].start + written[k].bits)

\* The i128 that is u when u < 2^(N-1) and u - 2^N otherwise.
BelowMidpointOrLess(u, N) ==
    IF NatLess(u, NatPow2(N - 1)) THEN u
    ELSE NatAdd(u, NatSub(NatPow2(U128Bits), NatPow2(N)))

\* C19: read_iN of the simple codec, on N bits whose least-significant-first
\* unsigned reconstruction is u, returns u when u < 2^(N-1) and u - 2^N
\* otherwise.
C19_SimpleSignedDecode ==
    IsSimple =>
        \A k \in 1..Len(results) : results[k].signed =>
            /\ results[k].status = "Ok"
            /\ results[k].value = BelowMidpointOrLess(Reconstruction(k), results[k].bits)

\* read_i8 on 0000 0001, whose reconstruction is 128, returned -128.
C19_Witness ==
    /\ IsSimple
    /\ Len(results) = 1
    /\ results[1].signed /\ results[1].bits = 8
    /\ content = <<FALSE, FALSE, FALSE, FALSE, FALSE, FALSE, FALSE, TRUE>>
    /\ Reconstruction(1) = <<128>>
    /\ results[1].value = I128OfInt(-128)

\* The j-th byte as bytes_to_bools is to give it: 8 bools, least significant
\* bit first.
BoolsOfByte(bools, j) == SubSeq(bools, 8 * (j - 1) + 1, 8 * j)

\* C20: bools_to_bytes(bytes_to_bools(b)) = b for every byte sequence b,
\* where bytes_to_bools gives 8 bools a byte, least significant bit first.
C20_BytesRoundTrip ==
    /\ pc \in {"bools", "converted"} =>
          /\ Len(sink) = 8 * Len(content)
          /\ \A j \in 1..Len(content) : IntOfBits(BoolsOfByte(sink, j)) = content[j]
    /\ pc = "converted" => results = content

\* The bytes 165 and 255 went to 16 bools and came back.
C20_Witness ==
    /\ pc = "converted"
    /\ content = <<165, U8Max>>
    /\ Len(sink) = 16
    /\ BoolsOfByte(sink, 1) = <<TRUE, FALSE, TRUE, FALSE, FALSE, TRUE, FALSE, TRUE>>
    /\ results = <<165, U8Max>>

\* ceil(n / 8)
BytesFor(n) == (n + 7) \div 8

\* n bools, all false.
Falses(n) == [i \in 1..n |-> FALSE]

\* C21: bools_to_bytes(x) has ceil(|x| / 8) bytes, and bytes_to_bools of them
\* is x followed by 8 * ceil(|x| / 8) - |x| false bools: x itself exactly when
\* |x| is a multiple of 8.
C21_BoolsRoundTripPads ==
    /\ pc \in {"packed", "unpacked"} => Len(results) = BytesFor(Len(content))
    /\ pc = "unpacked" =>
          /\ sink = content \o Falses(8 * BytesFor(Len(content)) - Len(content))
          /\ sink = content <=> Len(content) % 8 = 0

\* Nine bools, the last one true, came back as sixteen.
C21_Witness ==
    /\ pc = "unpacked"
    /\ Len(content) = 9 /\ content[9]
    /\ Len(results) = 2
    /\ Len(sink) = 16 /\ sink[9] /\ ~sink[16]

\* Every entry of a table fits the u8 it is stored in.
TableFitsU8(table) == \A i \in 1..Len(table) : table[i] \in 1..U8Max

\* C22: new of the digit encoder and of the digit decoder panics for every
\* digit_size below 2 and above 127, leaving no instance, and for every other
\* digit_size returns the instance of that digit_size and short_zero_and_one,
\* its table computed without overflow; v1 of both returns digit_size 3 with
\* short_zero_and_one.
C22_ConstructionFault ==
    pc # "start" =>
        /\ pc = "panicked" <=> (written[1].digit_size < 2 \/ written[1].digit_size > 127)
        /\ pc = "panicked" => protocol = NoProtocol
        /\ pc # "panicked" =>
              /\ protocol.kind = "digit"
              /\ protocol.digit_size = written[1].digit_size
              /\ protocol.short_zero_and_one = written[1].short_zero_and_one
              /\ FitsU128(NatPow2(protocol.digit_size))
              /\ TableFitsU8(protocol.max_num_digits)
        /\ written[1].v1 =>
              /\ pc # "panicked"
              /\ protocol.digit_size = 3 /\ protocol.short_zero_and_one

\* The decoder of the largest digit size was constructed.
C22_Witness ==
    /\ pc = "constructed"
    /\ written[1].who = "decoder" /\ ~written[1].v1
    /\ written[1].digit_size = 127
    /\ protocol.kind = "digit" /\ protocol.digit_size = 127
    /\ protocol.max_num_digits[10] = 2

\* The largest magnitude the digit part is given for a type: 2^N - 1 for an
\* unsigned one of N bits, 2^(N-1) - 1 for a signed one.
MaxMagnitude(signed, bits) ==
    NatSub(NatPow2(IF signed THEN bits - 1 ELSE bits), <<1>>)

\* n is the number of digits of base `base` that m > 0 takes:
\* base^(n-1) <= m < base^n.
IsNumDigitsOf(n, base, m) ==
    /\ n >= 1
    /\ NatLeq(PowerOf(base, n - 1), m)
    /\ NatLess(m, PowerOf(base, n))

\* C25: for every digit_size d and each of the ten types, the max_num_digits
\* entry is the number of digits of base 2^d - 1 that the largest magnitude of
\* the type takes, and no write emits more data digits than the entry.
C25_MaxDigitTable ==
    /\ pc = "constructed" =>
          \A ty \in IntTypes :
              IsNumDigitsOf(MaxNumDigits(protocol, ty[1], ty[2]),
                            NatSub(NatPow2(protocol.digit_size), <<1>>),
                            MaxMagnitude(ty[1], ty[2]))
    /\ pc = "written" =>
          results[1].num_digits <= MaxNumDigits(protocol, results[1].signed, results[1].bits)

\* digit_size 127: the smallest i128 was written with as many data digits as
\* the entry allows, two.
C25_Witness ==
    /\ pc = "written"
    /\ protocol.digit_size = 127
    /\ results[1].signed /\ results[1].bits = U128Bits
    /\ results[1].value = NatPow2(U128Bits - 1)
    /\ results[1].num_digits = 2
    /\ MaxNumDigits(protocol, TRUE, U128Bits) = 2

\* The bools the first and the second write of the value left in a sink.
FirstIn(self) ==
    SubSeq(SinkBools(self), Len(content) + 1, Len(content) + written[1].length)
SecondIn(self) ==
    SubSeq(SinkBools(self), Len(content) + written[1].length + 1,
           Len(content) + 2 * written[1].length)

\* C23: the same value of the same type written twice with the same codec
\* appends the same bools both times, whatever the sink held before and
\* whichever sink implementation takes them.
C23_Determinism ==
    pc = "twice" =>
        /\ written[2].length = written[1].length
        /\ \A k \in DOMAIN sink :
              /\ Len(SinkBools(sink[k])) = Len(content) + 2 * written[1].length
              /\ SubSeq(SinkBools(sink[k]), 1, Len(content)) = content
              /\ FirstIn(sink[k]) = SecondIn(sink[k])
              /\ FirstIn(sink[k]) = FirstIn(sink.bool_vec)

\* u8 227 was written twice by a digit codec behind one bool, across the
\* byte boundary of the U8VecBitSink.
C23_Witness ==
    /\ pc = "twice"
    /\ IsDigit /\ protocol.digit_size = 4 /\ protocol.short_zero_and_one
    /\ Len(content) = 1
    /\ written[1].value = <<227>> /\ ~written[1].signed
    /\ written[1].length = 13
    /\ Len(sink.u8_vec.bytes) = 4 /\ sink.u8_vec.bit_index = 3
    /\ FirstIn(sink.u32_vec) = SecondIn(sink.u8_vec)

\* The value written is 0 or 1; it is a number greater than 1.
IsZeroOrOne(item) == item.value \in {<<>>, <<1>>}
IsAboveOne(item) ==
    ~IsZeroOrOne(item) /\ ~(item.signed /\ I128Negative(item.value))

ZeroFrom(self, unit, bit_index) ==
    IF self.kind = "u8_vec" THEN unit \div (2 ^ bit_index) = 0
    ELSE \A k \in bit_index..31 : ~NatBit(unit, k)

LastUnit(self) ==
    IF self.kind = "u8_vec" THEN self.bytes[Len(self.bytes)] ELSE self.ints[Len(self.ints)]

\* C26: after every write to a U8VecBitSink (W = 8) or a U32VecBitSink
\* (W = 32), with n the number of bools written so far, bit_index is n mod W,
\* the number of stored units is n / W rounded up, so only the last unit can
\* be partial, and every bit of a partial last unit from position bit_index
\* up is zero.
C26_PackedSinkState ==
    Packs(sink) =>
        /\ sink.bit_index = Len(content) % UnitWidth(sink)
        /\ sink.bit_index \in 0..(UnitWidth(sink) - 1)
        /\ StoredUnits(sink) = (Len(content) + UnitWidth(sink) - 1) \div UnitWidth(sink)
        /\ sink.bit_index # 0 => ZeroFrom(sink, LastUnit(sink), sink.bit_index)

\* A U32VecBitSink after writes of 31 bools, of 1 bool and of 33 bools: two
\* full ints and a partial one holding one bool.
C26_Witness ==
    /\ sink.kind = "u32_vec"
    /\ written = <<31, 1, 33>>
    /\ Len(sink.ints) = 3 /\ sink.bit_index = 1
    /\ sink.ints[3] = <<1>>

\* The digits of the digit part of the k-th write, data digits and terminator.
NumDigitsIn(k) == Len(DigitPartBits(k)) \div protocol.digit_size

\* The number the data digits of the k-th write denote.
DataValue(k) ==
    ValueOfDigits(DigitPartBits(k), protocol.digit_size, 1, written[k].num_digits)

\* What read_digit_part returned to the k-th read, from the value read:
\* result + 2 and -unsigned_result - 1 undone.
DigitPartRead(k) ==
    IF results[k].signed /\ I128Negative(results[k].value)
    THEN Magnitude(results[k].value)
    ELSE IF protocol.short_zero_and_one THEN NatSub(results[k].value, <<2>>)
    ELSE results[k].value

\* C27: every data digit a digit encoder writes is in 0..2^d - 2, so the
\* group of d ones stands at a digit position of an encoding only as the
\* terminator after the last data digit; the decoder ends the number at a
\* digit of 2^d - 1 and does not add it to the value.
C27_DigitsNeverCollide ==
    IsDigit =>
        /\ \A k \in 1..Len(written) :
              ~written[k].raw /\ ~IsShort(k) =>
                  /\ NumDigitsIn(k) \in {written[k].num_digits, written[k].num_digits + 1}
                  /\ \A i \in 1..NumDigitsIn(k) :
                        /\ i <= written[k].num_digits
                              => DigitAt(DigitPartBits(k), protocol.digit_size, i)
                                    \in 0..(2 ^ protocol.digit_size - 2)
                        /\ DigitAt(DigitPartBits(k), protocol.digit_size, i)
                                 = 2 ^ protocol.digit_size - 1
                              => i = written[k].num_digits + 1
        /\ \A k \in 1..Len(results) :
              ~written[k].raw /\ ~IsShort(k) =>
                  /\ results[k].status = "Ok"
                  /\ results[k].asked = written[k].length
                  /\ DigitPartRead(k) = DataValue(k)

\* digit_size 3 without short_zero_and_one: u8 6 was written as the largest
\* data digit, 6, and the terminator, and was read as 6 from those 6 bools.
C27_Witness ==
    /\ IsDigit /\ protocol.digit_size = 3 /\ ~protocol.short_zero_and_one
    /\ Len(results) = 1
    /\ ~written[1].signed /\ written[1].bits = 8 /\ written[1].value = <<6>>
    /\ sink = <<FALSE, TRUE, TRUE, TRUE, TRUE, TRUE>>
    /\ written[1].num_digits = 1
    /\ results[1].value = <<6>> /\ results[1].asked = 6

\* C28: for every bit count n in 1..128, write_signed(sink, n, v) followed by
\* read_signed(source, n) returns v for every v of n bits, and
\* write_unsigned(sink, n, u) followed by read_unsigned(source, n) returns u
\* for every u of n bits.
C28_HelpersInverse ==
    /\ pc # "panicked"
    /\ results # <<>> => ReadBack(1)

\* The bools of the read call that a source of `kept` bools fails: one for a
\* prefix or sign bool, digit_size for a digit.
FailingRead(item, kept) == IF kept < item.prefix THEN 1 ELSE protocol.digit_size

\* The bools the read calls before the failing one took.
ReadBefore(item, kept) ==
    IF kept < item.prefix THEN kept
    ELSE item.prefix + ((kept - item.prefix) \div protocol.digit_size) * protocol.digit_size

\* C29: decoding a proper prefix of what a digit encoder wrote for a value
\* fails with the source's ReachedEnd and returns no value; the failure is
\* that of the first read call the source could not serve, with the number
\* of bools it did deliver, and no read call follows it.
C29_TruncationDetected ==
    results # <<>> =>
        /\ results[1].status = "ReachedEnd"
        /\ results[1].value = <<>>
        /\ results[1].asked
              = ReadBefore(written[1], Len(content)) + FailingRead(written[1], Len(content))
        /\ results[1].read_bools = Len(content) - ReadBefore(written[1], Len(content))
        /\ results[1].left = 0

\* digit_size 3 with short_zero_and_one: of the 7 bools of u8 7, the prefix
\* bool, the digit 5 and the terminator, the first 5 were kept; the read of
\* the terminator failed with 1 bool delivered.
C29_Witness ==
    /\ protocol.digit_size = 3 /\ protocol.short_zero_and_one
    /\ Len(results) = 1
    /\ ~written[1].signed /\ written[1].bits = 8 /\ written[1].value = <<7>>
    /\ content = <<FALSE, TRUE, FALSE, TRUE, TRUE>>
    /\ results[1].status = "ReachedEnd"
    /\ results[1].asked = 7 /\ results[1].read_bools = 1

\* C30: after any writes to a U8VecBitSink, however the bools were split
\* over the calls, get_bytes is bools_to_bytes of all the bools written, the
\* bytes to_bytes of a BoolVecBitSink gives after the same writes; finish
\* changes neither the bools stored nor their count.
C30_ChunkingIndependence ==
    /\ U8VecGetBytes(sink.u8_vec) = bools_to_bytes(content)
    /\ U8VecGetBytes(sink.u8_vec) = BoolVecToBytes(sink.bool_vec)
    /\ pc = "finished" => Observed(sink) = results[1]

\* After a write of 7 bools, one of 1 bool and one of 9, which left a byte
\* partial, completed it and left the third byte partial, the sinks were
\* finished.
C30_Witness ==
    /\ pc = "finished"
    /\ written = <<7, 1, 9>>
    /\ content = Dest(7) \o <<TRUE>> \o Dest(9)
    /\ U8VecGetBytes(sink.u8_vec) = <<213, 85, 1>>
    /\ U8VecGetNumBools(sink.u8_vec) = 17

\* C6: after the data digits the encoder writes one terminator digit, all
\* ones, exactly when fewer data digits than the maximum of the width were
\* written; at the maximum nothing follows the last data digit.
C6_TerminatorRule ==
    IsDigit =>
        \A k \in 1..Len(written) : ~IsShort(k) =>
            /\ written[k].num_digits <= MaxDigitsOf(written[k])
            /\ IF written[k].num_digits < MaxDigitsOf(written[k])
               THEN /\ Len(DigitPartBits(k)) = (written[k].num_digits + 1) * protocol.digit_size
                    /\ AllOnes(LastDigit(k))
               ELSE /\ Len(DigitPartBits(k)) = written[k].num_digits * protocol.digit_size
                    /\ ~AllOnes(LastDigit(k))

\* digit_size 4, short_zero_and_one: u8 227 is written with three data digits
\* and no terminator.
C6_Witness ==
    /\ IsDigit /\ protocol.digit_size = 4 /\ protocol.short_zero_and_one
    /\ Len(written) = 1
    /\ ~written[1].signed /\ written[1].bits = 8 /\ written[1].value = <<227>>
    /\ written[1].num_digits = 3
    /\ sink = <<FALSE, FALSE, FALSE, FALSE, FALSE, FALSE, FALSE, FALSE, FALSE,
                TRUE, FALSE, FALSE, FALSE>>
====
